---- MODULE Spec2Model ----
(***************************************************************************)
(* A model of the live markdown editor (MarkdownEditor.js and its helpers).*)
(*                                                                         *)
(* Strings are sequences of one-character strings, so that split, join,    *)
(* the fence patterns and the line-ending normalisation are computed the   *)
(* way the JavaScript computes them.                                       *)
(*                                                                         *)
(* The live area (this._live) is the sequence doc of its child elements.   *)
(* An element is a record                                                  *)
(*    cb    dataset.cb is set (the element was built by makeCodeBlock)     *)
(*    ed    the class list holds is-ed (editLine was the last to style it) *)
(*    md    dataset.md                                                     *)
(*    text  textContent while the element is in its raw editing form; the  *)
(*          rendered HTML of a blurred line is never read back by the      *)
(*          editor and is kept as the empty sequence                       *)
(*    lang  dataset.lang                                                   *)
(*    code  dataset.code (the textarea's value is copied into it by every  *)
(*          input handler, so the two are equal)                           *)
(* Every child carries the class ln or dataset.cb; a code block carries ln *)
(* only after editLine has been applied to it, together with is-ed.        *)
(***************************************************************************)
EXTENDS Integers, Sequences, FiniteSets, TLC

VARIABLES
    md,         \* this._md, the canonical string
    doc,        \* children of this._live, in document order
    undoStack,  \* this._undoStack
    redoStack,  \* this._redoStack
    syncTimer,  \* number of pending _deferSync timers (this._syncTimer is the last)
    saveTimer,  \* the pending autosave timers, oldest first: each is the html
                \* its callback captured (this._saveTimer is the last)
    mode,       \* this._mode
    lastOp,     \* name of the handler that ran last
    lastArg,    \* the input of that handler (for getMarkdown and getValue, the
                \* string returned): the string of loadValue and of the
                \* source pane, <<index, selectionStart, selectionEnd>> of a key
                \* in a code block's textarea
    composing,  \* this._composing
    emitted,    \* the calls of _emit made by the handler that ran last
    events,     \* the event names that have a handler in this._events
    destroyed,  \* destroy() has been called
    thrown,     \* the handler that ran last ended in an uncaught TypeError
    caret,      \* the offset the handler that ran last put the caret at, in a
                \* line or a textarea; -1 when it placed none
    el,         \* this._el is an element: init() has found the container
    histCap,    \* exploration cap on |undoStack| + |redoStack| (fixed per run)
    sizeCap     \* exploration caps on the sizes of doc and md (fixed per run)

vars == <<md, doc, undoStack, redoStack, syncTimer, saveTimer, mode, lastOp,
          lastArg, composing, emitted, events, destroyed, thrown, caret,
          el, histCap, sizeCap>>

----------------------------------------------------------------------------
(* Characters *)

\* the backtick (a TLA+ string cannot hold the character itself)
BT == "BT"
TL == "~"
LF == "\n"
CR == "\r"
SP == " "
TAB == "\t"

Letters == {"a", "b", "c", "d", "e", "g", "h", "i", "j", "l", "m", "n", "o", "p",
            "r", "s", "t", "u", "v", "y", "A", "B", "C", "H", "I"}
Digits == {"0", "1", "2", "3", "4", "5", "6", "7", "8", "9"}

\* \s of the regular expressions and String.prototype.trim, on the model's characters
WhiteSpace == {SP, TAB, LF, CR}

\* characters the regular expression dot does not match
LineTerminators == {LF, CR}

\* all strings over chars of length at most n
StringsUpTo(chars, n) == UNION {[1..k -> chars] : k \in 0..n}

----------------------------------------------------------------------------
(* Bounds of the exploration *)

MaxBlocks == 2
MaxLineLen == 3
MaxCodeLen == 1
MaxMdLen == 10
MaxHist == 1
MaxLoadLen == 3
MaxDrawLines == 4
MaxDrawLineLen == 5
MaxClassifyLen == 4
MaxHeadingLen == 8
MaxTabCodeLen == 3
MaxInlineLen == 5
MaxPreLen == 4
MaxInsertLen == 3

\* this._undoStack.length > 150
UndoLimit == 150

----------------------------------------------------------------------------
(* String helpers *)

RECURSIVE SplitAcc(_, _, _)
SplitAcc(s, i, cur) ==
    IF i > Len(s) THEN <<cur>>
    ELSE IF s[i] = LF THEN <<cur>> \o SplitAcc(s, i + 1, <<>>)
    ELSE SplitAcc(s, i + 1, Append(cur, s[i]))

\* s.split('\n')
SplitLines(s) == SplitAcc(s, 1, <<>>)

RECURSIVE JoinLines(_)
\* parts.join('\n')
JoinLines(parts) ==
    IF parts = <<>> THEN <<>>
    ELSE IF Len(parts) = 1 THEN parts[1]
    ELSE parts[1] \o <<LF>> \o JoinLines(Tail(parts))

RECURSIVE Flatten(_)
Flatten(ss) == IF ss = <<>> THEN <<>> ELSE ss[1] \o Flatten(Tail(ss))

\* s.trim()
Trim(s) ==
    LET keep == {i \in 1..Len(s) : s[i] \notin WhiteSpace}
    IN  IF keep = {} THEN <<>>
        ELSE LET lo == CHOOSE i \in keep : \A j \in keep : i <= j
                 hi == CHOOSE i \in keep : \A j \in keep : j <= i
             IN  SubSeq(s, lo, hi)

\* length of the run of character c at the start of s
LeadRun(s, c) ==
    IF \A i \in 1..Len(s) : s[i] = c THEN Len(s)
    ELSE (CHOOSE i \in 1..Len(s) : s[i] # c /\ \A j \in 1..(i - 1) : s[j] = c) - 1

RECURSIVE ReplaceCRLF(_)
\* .replace(/\r\n/g, '\n')
ReplaceCRLF(s) ==
    IF s = <<>> THEN <<>>
    ELSE IF Len(s) >= 2 /\ s[1] = CR /\ s[2] = LF
         THEN <<LF>> \o ReplaceCRLF(SubSeq(s, 3, Len(s)))
         ELSE <<s[1]>> \o ReplaceCRLF(Tail(s))

\* .replace(/\r/g, '\n')
ReplaceCR(s) == [i \in 1..Len(s) |-> IF s[i] = CR THEN LF ELSE s[i]]

\* isHtml: /<[a-z][\s\S]*>/i
isHtml(s) ==
    \E i \in 1..Len(s) :
        /\ s[i] = "<"
        /\ i + 1 <= Len(s)
        /\ s[i + 1] \in Letters
        /\ \E j \in (i + 2)..Len(s) : s[j] = ">"

----------------------------------------------------------------------------
(* line-renderer.js *)

StartsWith(s, pre) == Len(s) >= Len(pre) /\ SubSeq(s, 1, Len(pre)) = pre

\* /^#{n} /
IsHeading(s, n) ==
    /\ Len(s) >= n + 1
    /\ \A i \in 1..n : s[i] = "#"
    /\ s[n + 1] = SP

\* /^(---+|\*\*\*+)\s*$/
IsRule(s) ==
    \E c \in {"-", "*"} :
        /\ LeadRun(s, c) >= 3
        /\ \A i \in (LeadRun(s, c) + 1)..Len(s) : s[i] \in WhiteSpace

\* /^[-*+]/: the bullet pattern without its space
IsBulletNoSpace(s) == Len(s) >= 1 /\ s[1] \in {"-", "*", "+"}

\* /^[-*+] /
IsBullet(s) == Len(s) >= 2 /\ s[1] \in {"-", "*", "+"} /\ s[2] = SP

\* length of the run of digits of s that starts at position i
DigitRun(s, i) ==
    IF \A k \in i..Len(s) : s[k] \in Digits THEN Len(s) - i + 1
    ELSE (CHOOSE k \in i..Len(s) :
              s[k] \notin Digits /\ \A j \in i..(k - 1) : s[j] \in Digits) - i

\* /\d+\. / matches at position i
NumberedAt(s, i) ==
    LET n == DigitRun(s, i)
    IN  /\ n >= 1
        /\ i + n + 1 <= Len(s)
        /\ s[i + n] = "."
        /\ s[i + n + 1] = SP

lineType(text) ==
    IF IsHeading(text, 6) THEN "h6"
    ELSE IF IsHeading(text, 5) THEN "h5"
    ELSE IF IsHeading(text, 4) THEN "h4"
    ELSE IF IsHeading(text, 3) THEN "h3"
    ELSE IF IsHeading(text, 2) THEN "h2"
    ELSE IF IsHeading(text, 1) THEN "h1"
    ELSE IF IsRule(text) THEN "hr"
    ELSE IF Len(text) >= 1 /\ text[1] = ">" THEN "bq"
    ELSE IF IsBullet(text) THEN "ul"
    ELSE IF NumberedAt(text, 1) THEN "ol"
    ELSE IF Trim(text) = <<>> THEN "empty"
    ELSE "p"

\* editLine(el, text): className = 'ln is-ed', textContent = text
editLine(b, text) == [b EXCEPT !.ed = TRUE, !.text = text]

----------------------------------------------------------------------------
(* Elements of the live area *)

\* the bullet character renderLine writes before a list item
BULLET == "bullet"

\* esc(s): & < > become entities (each entity is kept as one token)
escChar(c) ==
    IF c = "&" THEN "&amp;" ELSE IF c = "<" THEN "&lt;" ELSE IF c = ">" THEN "&gt;" ELSE c

esc(s) == [k \in 1..Len(s) |-> escChar(s[k])]

\* the first index from i on whose character is in excl, Len(s) + 1 if none
RECURSIVE RunEnd(_, _, _)
RunEnd(s, i, excl) ==
    IF i <= Len(s) /\ s[i] \notin excl THEN RunEnd(s, i + 1, excl) ELSE i

\* a match of ch([^excl]+)ch at index i: the index of the closing ch, 0 if none
MatchRun(s, i, ch, excl) ==
    LET j == RunEnd(s, i + 1, excl)
    IN  IF s[i] = ch /\ j > i + 1 /\ j <= Len(s) /\ s[j] = ch THEN j ELSE 0

\* s.replace(/ch([^excl]+)ch/g, open + '$1' + close) from index i on
RECURSIVE ReplaceRun(_, _, _, _, _, _)
ReplaceRun(s, i, ch, excl, open, close) ==
    IF i > Len(s) THEN <<>>
    ELSE LET j == MatchRun(s, i, ch, excl)
         IN  IF j # 0
             THEN <<open>> \o SubSeq(s, i + 1, j - 1) \o <<close>>
                      \o ReplaceRun(s, j + 1, ch, excl, open, close)
             ELSE <<s[i]>> \o ReplaceRun(s, i + 1, ch, excl, open, close)

\* the delimiter D stands at index i of s
HasAt(s, i, D) == i + Len(D) - 1 <= Len(s) /\ SubSeq(s, i, i + Len(D) - 1) = D

\* the first index from j on where D stands, with no line terminator before
\* it; 0 if there is none
RECURSIVE LazyEnd(_, _, _)
LazyEnd(s, j, D) ==
    IF j > Len(s) THEN 0
    ELSE IF HasAt(s, j, D) THEN j
    ELSE IF s[j] \in LineTerminators THEN 0
    ELSE LazyEnd(s, j + 1, D)

\* a match of D(.+?)D at index i: the index of the closing D, 0 if none
MatchLazy(s, i, D) ==
    IF HasAt(s, i, D) /\ i + Len(D) <= Len(s) /\ s[i + Len(D)] \notin LineTerminators
    THEN LazyEnd(s, i + Len(D) + 1, D)
    ELSE 0

\* s.replace(/D(.+?)D/g, open + '$1' + close) from index i on
RECURSIVE ReplaceLazy(_, _, _, _, _)
ReplaceLazy(s, i, D, open, close) ==
    IF i > Len(s) THEN <<>>
    ELSE LET j == MatchLazy(s, i, D)
         IN  IF j # 0
             THEN <<open>> \o SubSeq(s, i + Len(D), j - 1) \o <<close>>
                      \o ReplaceLazy(s, j + Len(D), D, open, close)
             ELSE <<s[i]>> \o ReplaceLazy(s, i + 1, D, open, close)

\* a match of \[([^\]]{n,})\]\(([^)]+)\) at index i: the indices of the ']'
\* and of the ')', <<>> if none
MatchLink(s, i, n) ==
    LET t == RunEnd(s, i + 1, {"]"})
        u == RunEnd(s, t + 2, {")"})
    IN  IF /\ i <= Len(s) /\ s[i] = "["
           /\ t - (i + 1) >= n
           /\ t + 1 <= Len(s) /\ s[t + 1] = "("
           /\ u > t + 2 /\ u <= Len(s)
        THEN <<t, u>>
        ELSE <<>>

\* s.replace(/!\[([^\]]*)\]\(([^)]+)\)/g, '<img src="$2" alt="$1" loading="lazy">')
RECURSIVE ReplaceImages(_, _)
ReplaceImages(s, i) ==
    IF i > Len(s) THEN <<>>
    ELSE LET m == IF s[i] = "!" THEN MatchLink(s, i + 1, 0) ELSE <<>>
         IN  IF m # <<>>
             THEN <<"<img src=\"">> \o SubSeq(s, m[1] + 2, m[2] - 1) \o <<"\" alt=\"">>
                      \o SubSeq(s, i + 2, m[1] - 1) \o <<"\" loading=\"lazy\">">>
                      \o ReplaceImages(s, m[2] + 1)
             ELSE <<s[i]>> \o ReplaceImages(s, i + 1)

\* s.replace(/\[([^\]]+)\]\(([^)]+)\)/g, '<a href="$2" target="_blank" rel="noopener">$1</a>')
RECURSIVE ReplaceLinks(_, _)
ReplaceLinks(s, i) ==
    IF i > Len(s) THEN <<>>
    ELSE LET m == MatchLink(s, i, 1)
         IN  IF m # <<>>
             THEN <<"<a href=\"">> \o SubSeq(s, m[1] + 2, m[2] - 1)
                      \o <<"\" target=\"_blank\" rel=\"noopener\">">>
                      \o SubSeq(s, i + 1, m[1] - 1) \o <<"</a>">>
                      \o ReplaceLinks(s, m[2] + 1)
             ELSE <<s[i]>> \o ReplaceLinks(s, i + 1)

\* inlineRender(raw): the tags it writes are kept as one token each
inlineRender(raw) ==
    LET s0 == esc(raw)
        s1 == ReplaceRun(s0, 1, BT, {BT, LF}, "<span class=\"ic\">", "</span>")
        s2 == ReplaceLazy(s1, 1, <<"*", "*", "*">>, "<strong><em>", "</em></strong>")
        s3 == ReplaceLazy(s2, 1, <<"*", "*">>, "<strong>", "</strong>")
        s4 == ReplaceLazy(s3, 1, <<"_", "_">>, "<strong>", "</strong>")
        s5 == ReplaceRun(s4, 1, "*", {"*", LF}, "<em>", "</em>")
        s6 == ReplaceRun(s5, 1, "_", {"_", LF}, "<em>", "</em>")
        s7 == ReplaceLazy(s6, 1, <<TL, TL>>, "<del>", "</del>")
        s8 == ReplaceImages(s7, 1)
    IN  ReplaceLinks(s8, 1)

\* el.innerHTML after renderLine(el, text)
renderLine(text) ==
    LET t == lineType(text)
        orBr(h) == IF h = <<>> THEN <<"<br>">> ELSE h
        hashes == LeadRun(text, "#")
        digits == DigitRun(text, 1)
        rest == SubSeq(text, digits + 3, Len(text))
    IN  IF t \in {"h1", "h2", "h3", "h4", "h5", "h6"}
        THEN orBr(inlineRender(SubSeq(text, hashes + 2, Len(text))))
        ELSE IF t = "hr" THEN <<>>
        ELSE IF t = "bq"
        THEN orBr(inlineRender(SubSeq(text, (IF Len(text) >= 2 /\ text[2] = SP THEN 3 ELSE 2),
                                      Len(text))))
        ELSE IF t = "ul" THEN <<BULLET, SP>> \o inlineRender(SubSeq(text, 3, Len(text)))
        ELSE IF t = "ol"
        THEN SubSeq(text, 1, digits) \o <<".", SP>>
                 \o inlineRender(SubSeq(rest, 1, RunEnd(rest, 1, LineTerminators) - 1))
        ELSE IF t = "empty" THEN <<"<br>">>
        ELSE orBr(inlineRender(text))

\* _makeLine(text): a rendered line with dataset.md = text
makeLine(text) ==
    [cb |-> FALSE, ed |-> FALSE, md |-> text, text |-> <<>>,
     lang |-> <<>>, code |-> <<>>]

\* makeCodeBlock(lang, code, editor): dataset.cb, dataset.lang, dataset.code
makeCodeBlock(lang, code) ==
    [cb |-> TRUE, ed |-> FALSE, md |-> <<>>, text |-> <<>>,
     lang |-> lang, code |-> code]

\* this._live.querySelector('.ln.is-ed'): index of the first such child, 0 for null
FocusedIdx(d) ==
    IF \E i \in 1..Len(d) : d[i].ed
    THEN CHOOSE i \in 1..Len(d) : d[i].ed /\ \A j \in 1..(i - 1) : ~d[j].ed
    ELSE 0

\* indices of the children matched by '.ln'
LnIdx(d) == {i \in 1..Len(d) : ~d[i].cb \/ d[i].ed}

\* _prevLine / _nextLine: every child is a line or a code block
prevLine(d, i) == IF i > 1 THEN i - 1 ELSE 0
nextLine(d, i) == IF i < Len(d) THEN i + 1 ELSE 0

\* _blurLine without el.dataset.md = el.textContent
blurLineNoCommit(d, i) ==
    IF i = 0 \/ d[i].cb THEN d
    ELSE [d EXCEPT ![i] = [@ EXCEPT !.ed = FALSE, !.text = <<>>]]

\* _blurLine(el)
blurLine(d, i) ==
    IF i = 0 \/ d[i].cb THEN d
    ELSE [d EXCEPT ![i] = [@ EXCEPT !.md = d[i].text, !.ed = FALSE, !.text = <<>>]]

\* _focusLine(el, atStart)
focusLine(d, i) ==
    IF d[i].cb THEN d
    ELSE LET cur == FocusedIdx(d)
             d1 == IF cur # 0 /\ cur # i THEN blurLine(d, cur) ELSE d
         IN  [d1 EXCEPT ![i] = editLine(d1[i], d1[i].md)]

\* _setText(el, text)
setText(d, i, text) == [d EXCEPT ![i] = [@ EXCEPT !.text = text, !.md = text]]

\* _insertAfter(ref, newEl)
insertAfter(d, i, b) == SubSeq(d, 1, i) \o <<b>> \o SubSeq(d, i + 1, Len(d))

\* el.remove()
removeAt(d, i) == SubSeq(d, 1, i - 1) \o SubSeq(d, i + 1, Len(d))

----------------------------------------------------------------------------
(* _draw: the structural parser *)

\* /^(`{3,}|~{3,})(.*)/ matches the line
FenceOpen(line) == \E c \in {BT, TL} : LeadRun(line, c) >= 3

\* (fence[2] || '').trim(): what follows the fence run, up to a line terminator
FenceLang(line) ==
    LET c == line[1]
        n == LeadRun(line, c)
        rest == SubSeq(line, n + 1, Len(line))
        stops == {i \in 1..Len(rest) : rest[i] \in LineTerminators}
        upto == IF stops = {} THEN Len(rest)
                ELSE (CHOOSE i \in stops : \A j \in stops : i <= j) - 1
    IN  Trim(SubSeq(rest, 1, upto))

\* /^(`{3,}|~{3,})\s*$/ matches the line
FenceClose(line) ==
    \E c \in {BT, TL} :
        /\ LeadRun(line, c) >= 3
        /\ \A i \in (LeadRun(line, c) + 1)..Len(line) : line[i] \in WhiteSpace

RECURSIVE DrawFrom(_, _)
\* the while loop of _draw from line index i (1-based)
DrawFrom(lines, i) ==
    IF i > Len(lines) THEN <<>>
    ELSE IF FenceOpen(lines[i])
    THEN LET closers == {k \in (i + 1)..Len(lines) : FenceClose(lines[k])}
             stop == IF closers = {} THEN Len(lines) + 1
                     ELSE CHOOSE k \in closers : \A j \in closers : k <= j
             codeLines == SubSeq(lines, i + 1, stop - 1)
             next == IF closers = {} THEN stop ELSE stop + 1
         IN  <<makeCodeBlock(FenceLang(lines[i]), JoinLines(codeLines))>>
                 \o DrawFrom(lines, next)
    ELSE <<makeLine(lines[i])>> \o DrawFrom(lines, i + 1)

\* _draw(): the children of the live area rebuilt from the canonical string m
Draw(m) ==
    IF m = <<>> THEN <<makeLine(<<>>)>>
    ELSE DrawFrom(SplitLines(m), 1)

----------------------------------------------------------------------------
(* _sync: the canonicaliser, and the history *)

\* _sync without the commit of the editing lines
SyncedDocStale(d) == d

\* _sync commits the displayed text of every editing line to dataset.md
SyncedDoc(d) ==
    [i \in 1..Len(d) |->
        IF ~d[i].cb /\ d[i].ed THEN [d[i] EXCEPT !.md = d[i].text] ELSE d[i]]

\* the entries of a code block without the closing fence
NodePartsNoClose(b) ==
    IF b.cb THEN <<(<<BT, BT, BT>> \o b.lang)>> \o SplitLines(b.code)
    ELSE <<b.md>>

\* the entries one child pushes onto parts
NodeParts(b) ==
    IF b.cb THEN <<(<<BT, BT, BT>> \o b.lang)>> \o SplitLines(b.code) \o <<(<<BT, BT, BT>>)>>
    ELSE <<b.md>>

\* parts.join('\n') over the children in document order
DocText(d) == JoinLines(Flatten([i \in 1..Len(d) |-> NodeParts(d[i])]))

\* the string _sync computes from the children d
Serialize(d) == DocText(SyncedDoc(d))

\* _pushUndo without the shift() that drops the oldest snapshot
pushUndoNoShift(state, u, r) ==
    IF state = <<>> \/ (u # <<>> /\ state = u[Len(u)])
    THEN [undo |-> u, redo |-> r]
    ELSE [undo |-> Append(u, state), redo |-> <<>>]

\* _pushUndo(state) on the stacks u (undo) and r (redo)
pushUndo(state, u, r) ==
    IF state = <<>> \/ (u # <<>> /\ state = u[Len(u)])
    THEN [undo |-> u, redo |-> r]
    ELSE LET u1 == Append(u, state)
         IN  [undo |-> IF Len(u1) > UndoLimit THEN Tail(u1) ELSE u1,
              redo |-> <<>>]

\* _sync() on children d, canonical string m and stacks u, r
Sync(d, m, u, r) ==
    LET newMd == Serialize(d)
        h == IF newMd # m THEN pushUndo(m, u, r) ELSE [undo |-> u, redo |-> r]
    IN  [doc |-> SyncedDoc(d), md |-> newMd, undo |-> h.undo, redo |-> h.redo]

----------------------------------------------------------------------------
(* loadValue *)

\* the first index from i on whose character is not in set, Len(s) + 1 if none
RECURSIVE RunOf(_, _, _)
RunOf(s, i, set) ==
    IF i <= Len(s) /\ s[i] \in set THEN RunOf(s, i + 1, set) ELSE i

\* DOM nodes: a <p> whose only child is a text node, and a <pre> whose only
\* child is a <code> with the class cls and the text content text
pNode(text) == [tag |-> "p", cls |-> <<>>, text |-> text]
preNode(cls, text) == [tag |-> "pre", cls |-> cls, text |-> text]

\* the HTML string of a node, of which the DOMParser builds the node
outerHTML(n) ==
    IF n.tag = "p" THEN <<"<", "p", ">">> \o n.text \o <<"<", "/", "p", ">">>
    ELSE <<"<", "p", "r", "e", ">", "<", "c", "o", "d", "e">>
             \o (IF n.cls = <<>> THEN <<>>
                 ELSE <<SP, "c", "l", "a", "s", "s", "=", "\"">> \o n.cls \o <<"\"">>)
             \o <<">">> \o n.text
             \o <<"<", "/", "c", "o", "d", "e", ">", "<", "/", "p", "r", "e", ">">>

RECURSIVE bodyHTML(_)
bodyHTML(body) == IF body = <<>> THEN <<>> ELSE outerHTML(Head(body)) \o bodyHTML(Tail(body))

\* \w of the regular expressions, on the model's characters
WordChars == Letters \cup Digits \cup {"_"}

\* codeEl.className.match(/language-(\w+)/): the captured language, '' if
\* there is no match
preLang(cls) ==
    LET key == <<"l", "a", "n", "g", "u", "a", "g", "e", "-">>
        at == {i \in 1..Len(cls) :
                  HasAt(cls, i, key) /\ i + Len(key) <= Len(cls)
                      /\ cls[i + Len(key)] \in WordChars}
    IN  IF at = {} THEN <<>>
        ELSE LET i == CHOOSE x \in at : \A y \in at : x <= y
             IN  SubSeq(cls, i + Len(key),
                        RunOf(cls, i + Len(key), WordChars) - 1)

\* text.replace(/\n$/, '')
dropFinalLF(t) ==
    IF t # <<>> /\ t[Len(t)] = LF THEN SubSeq(t, 1, Len(t) - 1) ELSE t

\* walk(node) of htmlToMarkdown for the cases 'p' and 'pre'
walk(n) ==
    IF n.tag = "p"
    THEN LET c == Trim(n.text) IN IF c = <<>> THEN <<>> ELSE c \o <<LF>>
    ELSE <<BT, BT, BT>> \o preLang(n.cls) \o <<LF>> \o dropFinalLF(n.text)
             \o <<LF, BT, BT, BT, LF>>

\* children() of the body: the walks of its child nodes, joined
RECURSIVE walkChildren(_)
walkChildren(body) ==
    IF body = <<>> THEN <<>> ELSE walk(Head(body)) \o walkChildren(Tail(body))

\* s.replace(/\n{3,}/g, '\n\n') from index i on
RECURSIVE collapseBlankLines(_, _)
collapseBlankLines(s, i) ==
    IF i > Len(s) THEN <<>>
    ELSE LET j == RunOf(s, i, {LF})
         IN  IF j - i >= 3 THEN <<LF, LF>> \o collapseBlankLines(s, j)
             ELSE <<s[i]>> \o collapseBlankLines(s, i + 1)

\* htmlToMarkdown(html), for the body the DOMParser builds of html
htmlToMarkdown(body) ==
    IF body = <<>> THEN <<>> ELSE Trim(collapseBlankLines(walkChildren(body), 1))

\* loadValue without its second replace: a lone \r is kept
NormalizeCRLFOnly(s) == ReplaceCRLF(s)

\* .replace(/\r\n/g, '\n').replace(/\r/g, '\n')
NormalizeEOL(s) == ReplaceCR(ReplaceCRLF(s))

\* htmlToMarkdown(value) is computed by the browser's DOMParser and a tree walk;
\* here its result is any string of HtmlResults
loadText(value, html) ==
    NormalizeEOL(IF value = <<>> THEN <<>>
                 ELSE IF isHtml(value) THEN html
                 ELSE value)

----------------------------------------------------------------------------
(* Inputs of the exploration *)

\* characters typed into a line
TypeChars == {BT}

\* characters typed into a code block
CodeChars == {"a"}

\* answers to the language prompt of the code block command
Langs == {<<>>}

\* multi-line clipboard texts
PasteTexts == {<<LF>>}


\* values typed into the source pane
SourceTexts == {<<>>, <<"a">>}

\* arguments of loadValue in the editor's exploration
LoadTexts == {<<>>, <<"a", CR, LF, "a">>, <<"<", "a", ">">>}

\* results of htmlToMarkdown
HtmlResults == {<<"a">>, <<"a", CR, "a">>}

Modes == {"live", "source", "preview"}

\* the initialValue option: none, or an empty fenced code block
InitialValues == {<<>>, <<BT, BT, BT, LF, LF, BT, BT, BT>>}

\* lines of the initialValue texts that exercise the structural parser
DrawLines ==
    {<<>>, <<"a">>, <<BT, BT>>, <<BT, BT, BT>>, <<TL, TL, TL>>, <<BT, BT, BT, "a">>,
     <<BT, BT, BT, SP>>, <<BT, BT, BT, SP, "a">>}

\* the initialValue option in the exploration of the parser: up to
\* MaxDrawLines lines of DrawLines
DrawTexts ==
    {JoinLines(ls) : ls \in UNION {[1..k -> DrawLines] : k \in 1..MaxDrawLines}}

\* the body a DOMParser builds for loadValue in the exploration of the HTML
\* converter: a <pre><code> of up to MaxPreLen characters, with or without a
\* language class, alone or after a paragraph
PreTexts == StringsUpTo({LF, "a"}, MaxPreLen)
PreClasses == {<<>>, <<"l", "a", "n", "g", "u", "a", "g", "e", "-", "j">>}
PreNodes == {preNode(cls, t) : cls \in PreClasses, t \in PreTexts}
PreBodies == {<<n>> : n \in PreNodes} \cup {<<pNode(<<"a">>), n>> : n \in PreNodes}

\* the initialValue option in the exploration of the code block's keys: one
\* fenced block, empty or not, with or without a line before and after it
CodeTexts ==
    {JoinLines(pre \o <<<<BT, BT, BT>>, c, <<BT, BT, BT>>>> \o post) :
        pre \in {<<>>, <<<<"a">>>>}, post \in {<<>>, <<<<"a">>>>},
        c \in {<<>>, <<"a">>}}

\* the initialValue option in the exploration of the merge: one or two lines
\* of letters, or a fenced block and a line
MergeLines == {<<>>, <<"a">>, <<"b">>, <<"a", "b">>}
MergeTexts ==
    {JoinLines(ls) : ls \in UNION {[1..k -> MergeLines] : k \in 1..MaxBlocks}}
        \cup {JoinLines(<<<<BT, BT, BT>>, <<>>, <<BT, BT, BT>>, l>>) : l \in MergeLines}

\* pasted plain texts that hold a line break: up to MaxInsertLen characters
InsertTexts == {t \in StringsUpTo({LF, "x"}, MaxInsertLen) : \E k \in 1..Len(t) : t[k] = LF}

\* one-line initialValue texts that exercise the inline renderer: every string
\* of up to MaxInlineLen characters of a backtick, an asterisk and a letter
InlineAlphabet == {BT, "*", "a"}
InlineTexts == StringsUpTo(InlineAlphabet, MaxInlineLen)

\* one-line initialValue texts that exercise the classifier: every string of
\* up to MaxClassifyLen marker characters, and the runs of # and space up to
\* MaxHeadingLen
ClassifyAlphabet == {"#", "-", "*", "+", ">", "1", ".", SP}
ClassifyTexts ==
    StringsUpTo(ClassifyAlphabet, MaxClassifyLen) \cup StringsUpTo({"#", SP}, MaxHeadingLen)

\* all arguments of loadValue up to MaxLoadLen characters
LoadAlphabet == {"a", "<", ">", CR, LF}
AllLoadTexts == StringsUpTo(LoadAlphabet, MaxLoadLen)

----------------------------------------------------------------------------
(* The editor *)

\* the caps of the explorations of the editor's handlers
NarrowCap ==
    [blocks |-> MaxBlocks, line |-> MaxLineLen, code |-> MaxCodeLen, md |-> MaxMdLen]

\* the caps of the exploration of the parser
DrawCap ==
    [blocks |-> MaxDrawLines + 1, line |-> MaxDrawLineLen,
     code |-> MaxDrawLines * (MaxDrawLineLen + 1),
     md |-> 2 * MaxDrawLines * (MaxDrawLineLen + 1)]

\* the caps of the exploration of the code block's keys
CodeCap ==
    [blocks |-> MaxBlocks + 1, line |-> MaxLineLen, code |-> MaxTabCodeLen,
     md |-> MaxMdLen + 2 * MaxTabCodeLen]

\* the caps of the exploration of the inline renderer
InlineCap ==
    [blocks |-> MaxBlocks, line |-> MaxInlineLen, code |-> MaxCodeLen,
     md |-> 2 * MaxInlineLen]

\* the caps of the exploration of the multi-line insert
InsertCap ==
    [blocks |-> MaxBlocks + MaxInsertLen, line |-> MaxLineLen + MaxInsertLen,
     code |-> MaxCodeLen, md |-> 2 * MaxMdLen]

\* the caps of the exploration of the classifier
ClassifyCap ==
    [blocks |-> MaxBlocks, line |-> MaxHeadingLen, code |-> MaxCodeLen,
     md |-> 2 * MaxHeadingLen]

\* after construction and init(): loadValue(initialValue) when the option is
\* set, _draw() of the empty string otherwise
Init ==
    /\ \E v \in InitialValues :
           /\ md = loadText(v, <<>>)
           /\ doc = Draw(loadText(v, <<>>))
    /\ undoStack = <<>>
    /\ redoStack = <<>>
    /\ syncTimer = 0
    /\ saveTimer = <<>>
    /\ mode = "live"
    /\ lastOp = "init"
    /\ lastArg = <<>>
    /\ composing = FALSE
    /\ emitted = <<>>
    /\ events = {}
    /\ destroyed = FALSE
    /\ el = TRUE
    /\ thrown = FALSE
    /\ caret = -1
    /\ histCap = MaxHist
    /\ sizeCap = NarrowCap

\* the explored part of the state space
WithinBounds(d, m, u, r) ==
    /\ Len(d) <= sizeCap.blocks
    /\ Len(m) <= sizeCap.md
    /\ Len(Serialize(d)) <= sizeCap.md
    /\ \A i \in 1..Len(d) :
           /\ Len(d[i].md) <= sizeCap.line
           /\ Len(d[i].text) <= sizeCap.line
           /\ Len(d[i].code) <= sizeCap.code
    /\ Len(u) + Len(r) <= histCap

\* markdownToHtml: the empty string for an empty argument, the output of the
\* external marked.parse otherwise (kept as the application itself)
markdownToHtml(m) == IF m = <<>> THEN <<>> ELSE <<"marked.parse">> \o m

\* getValue()
getValue(m) == markdownToHtml(m)

\* the timers pending after _emitChange() without its clearTimeout
emitChangeStacked(q, html) == Append(q, html)

\* the timers pending after _emitChange() with the timers q pending: the one
\* this._saveTimer names is cleared, a new one is set that captures html
emitChange(q, html) ==
    Append((IF q # <<>> THEN SubSeq(q, 1, Len(q) - 1) ELSE q), html)

\* a call this._emit(event, html, m)
emit(event, html, m) == [event |-> event, html |-> html, md |-> m]

\* what no handler but destroy(), on(), a throwing one or a textarea's changes
QuietAt(c) ==
    /\ events' = events
    /\ destroyed' = destroyed
    /\ thrown' = FALSE
    /\ caret' = c

\* the same for a handler that places no caret
Quiet == QuietAt(-1)

\* the state a handler leaves behind; sv: the handler ends with
\* _emitChange(); c: the offset it put the caret at, -1 for none
CommitAt(op, arg, d, m, u, r, st, sv, mo, c) ==
    /\ WithinBounds(d, m, u, r)
    /\ QuietAt(c)
    /\ emitted' = IF sv THEN <<emit("change", getValue(m), m)>> ELSE <<>>
    /\ doc' = d
    /\ md' = m
    /\ undoStack' = u
    /\ redoStack' = r
    /\ syncTimer' = st
    /\ saveTimer' = IF sv THEN emitChange(saveTimer, getValue(m)) ELSE saveTimer
    /\ mode' = mo
    /\ lastOp' = op
    /\ lastArg' = arg
    /\ composing' = composing
    /\ el' = el
    /\ histCap' = histCap
    /\ sizeCap' = sizeCap

\* the state a handler that places no caret leaves behind
Commit(op, arg, d, m, u, r, st, sv, mo) ==
    CommitAt(op, arg, d, m, u, r, st, sv, mo, -1)

\* a handler that ends with this._sync(); this._emitChange() on children d,
\* after it put the caret at offset c
CommitSyncedAt(op, d, c) ==
    LET s == Sync(d, md, undoStack, redoStack)
    IN  CommitAt(op, <<>>, s.doc, s.md, s.undo, s.redo, syncTimer, TRUE, mode, c)

\* a handler that ends with this._sync(); this._emitChange() on children d
CommitSynced(op, d) ==
    LET s == Sync(d, md, undoStack, redoStack)
    IN  Commit(op, <<>>, s.doc, s.md, s.undo, s.redo, syncTimer, TRUE, mode)

\* _onClick on the line at index i
Click(i) ==
    /\ mode = "live"
    /\ ~doc[i].cb /\ ~doc[i].ed
    /\ Commit("click", <<>>, focusLine(doc, i), md, undoStack, redoStack,
              syncTimer, FALSE, mode)

\* _onClick on the empty area of the live pane
ClickEmpty ==
    /\ mode = "live"
    /\ LET lines == LnIdx(doc)
           last == CHOOSE i \in lines : \A j \in lines : j <= i
           d == IF lines # {} THEN focusLine(doc, last)
                ELSE focusLine(Append(doc, makeLine(<<>>)), Len(doc) + 1)
       IN  Commit("click", <<>>, d, md, undoStack, redoStack,
                  syncTimer, FALSE, mode)

\* _deferSync without the clearTimeout: the timers stack
deferSyncStacked(n) == n + 1

\* _deferSync() with n timers pending: the timer this._syncTimer names is
\* cleared, a new one is set
deferSync(n) == (IF n > 0 THEN n - 1 ELSE 0) + 1

\* _onInput after the browser has changed the text of the editing element
onInput(d) ==
    LET f == FocusedIdx(d)
    IN  IF composing \/ f = 0 THEN d ELSE [d EXCEPT ![f] = [@ EXCEPT !.md = d[f].text]]

\* the timers pending after _onInput
onInputTimer == IF composing \/ FocusedIdx(doc) = 0 THEN syncTimer ELSE deferSync(syncTimer)

\* character c typed at offset p of the editing element i, then _onInput
TypeChar(i, p, c) ==
    /\ mode = "live"
    /\ doc[i].ed
    /\ Len(doc[i].text) < sizeCap.line
    /\ LET t == doc[i].text
           t1 == SubSeq(t, 1, p) \o <<c>> \o SubSeq(t, p + 1, Len(t))
           d == onInput([doc EXCEPT ![i] = [@ EXCEPT !.text = t1]])
       IN  Commit("input", <<>>, d, md, undoStack, redoStack, onInputTimer,
                  FALSE, mode)

\* character c typed at offset p of the textarea of code block i: the block's
\* input handler, then _onInput as the event bubbles to the live area
CodeInput(i, p, c) ==
    /\ mode = "live"
    /\ doc[i].cb /\ ~doc[i].ed
    /\ Len(doc[i].code) < sizeCap.code
    /\ LET t == doc[i].code
           t1 == SubSeq(t, 1, p) \o <<c>> \o SubSeq(t, p + 1, Len(t))
           d == onInput([doc EXCEPT ![i] = [@ EXCEPT !.code = t1]])
           st == deferSync(syncTimer)
       IN  Commit("codeinput", <<>>, d, md, undoStack, redoStack,
                  (IF composing \/ FocusedIdx(doc) = 0 THEN st ELSE deferSync(st)),
                  FALSE, mode)

\* compositionstart on the live area while a line is being edited
CompositionStart ==
    /\ mode = "live"
    /\ FocusedIdx(doc) # 0
    /\ ~composing
    /\ composing' = TRUE
    /\ lastOp' = "compositionstart"
    /\ lastArg' = <<>>
    /\ emitted' = <<>>
    /\ Quiet
    /\ UNCHANGED <<el, md, doc, undoStack, redoStack, syncTimer, saveTimer, mode,
                   histCap, sizeCap>>

\* compositionend on the live area: _composing = false, then _onInput
CompositionEnd ==
    /\ composing
    /\ composing' = FALSE
    /\ LET f == FocusedIdx(doc)
       IN  /\ doc' = IF f = 0 THEN doc ELSE [doc EXCEPT ![f] = [@ EXCEPT !.md = doc[f].text]]
           /\ syncTimer' = IF f = 0 THEN syncTimer ELSE deferSync(syncTimer)
    /\ lastOp' = "compositionend"
    /\ lastArg' = <<>>
    /\ emitted' = <<>>
    /\ Quiet
    /\ UNCHANGED <<el, md, undoStack, redoStack, saveTimer, mode, histCap, sizeCap>>

\* the timer of _deferSync fires
SyncTimerFire ==
    /\ syncTimer > 0
    /\ LET s == Sync(doc, md, undoStack, redoStack)
       IN  Commit("deferredSync", <<>>, s.doc, s.md, s.undo, s.redo,
                  syncTimer - 1, TRUE, mode)

\* Backspace in the textarea of code block i with the caret at offset 0, while
\* no line is being edited: the block's keydown handler has no branch for the
\* key, the textarea has nothing to delete, and _onKeydown, which the event
\* bubbles to, returns for want of a '.ln.is-ed'
CodeBackspace(i) ==
    /\ mode = "live"
    /\ doc[i].cb /\ ~doc[i].ed
    /\ FocusedIdx(doc) = 0
    /\ Commit("codeBackspace", <<>>, doc, md, undoStack, redoStack,
              syncTimer, FALSE, mode)

\* ta.value after the Tab branch of the textarea's keydown handler, without
\* the removal of the selected text
tabInsertKeepsSelection(c, start, end) ==
    SubSeq(c, 1, start) \o <<SP, SP>> \o SubSeq(c, start + 1, Len(c))

\* ta.value after the Tab branch of the textarea's keydown handler:
\* ta.value.slice(0, start) + '  ' + ta.value.slice(end)
tabInsert(c, start, end) ==
    SubSeq(c, 1, start) \o <<SP, SP>> \o SubSeq(c, end + 1, Len(c))

\* Tab in the textarea of code block i with the selection [start, end): the
\* keydown handler of the block stops the event, so _onKeydown does not run,
\* and assigning ta.value fires no input event
CodeTab(i, start, end) ==
    /\ mode = "live"
    /\ doc[i].cb /\ ~doc[i].ed
    /\ start <= end /\ end <= Len(doc[i].code)
    /\ LET d == [doc EXCEPT ![i] = [@ EXCEPT !.code = tabInsert(doc[i].code, start, end)]]
       IN  /\ WithinBounds(d, md, undoStack, redoStack)
           /\ doc' = d
    /\ caret' = start + 2
    /\ syncTimer' = deferSync(syncTimer)
    /\ lastOp' = "codeTab"
    /\ lastArg' = <<i, start, end>>
    /\ emitted' = <<>>
    /\ thrown' = FALSE
    /\ UNCHANGED <<el, md, undoStack, redoStack, saveTimer, mode, composing, events,
                   destroyed, histCap, sizeCap>>

\* a key whose branch in the textarea's keydown handler calls a method the
\* editor does not define (editor._prevLn, editor._nextLn): the call throws a
\* TypeError after preventDefault and stopPropagation, nothing else happens
CodeKeyThrows(op, i, pos) ==
    /\ mode = "live"
    /\ doc[i].cb /\ ~doc[i].ed
    /\ thrown' = TRUE
    /\ caret' = -1
    /\ lastOp' = op
    /\ lastArg' = <<i, pos, pos>>
    /\ emitted' = <<>>
    /\ UNCHANGED <<el, md, doc, undoStack, redoStack, syncTimer, saveTimer, mode,
                   composing, events, destroyed, histCap, sizeCap>>

\* ArrowUp in the textarea of code block i with selectionStart = 0
CodeArrowUp(i) == CodeKeyThrows("codeArrowUp", i, 0)

\* ArrowDown in the textarea of code block i with selectionStart = ta.value.length
CodeArrowDown(i) == CodeKeyThrows("codeArrowDown", i, Len(doc[i].code))

\* on(event, handler)
On(event) ==
    /\ event \notin events
    /\ events' = events \cup {event}
    /\ lastOp' = "on"
    /\ lastArg' = <<>>
    /\ emitted' = <<>>
    /\ thrown' = FALSE
    /\ caret' = -1
    /\ UNCHANGED <<el, md, doc, undoStack, redoStack, syncTimer, saveTimer, mode,
                   composing, destroyed, histCap, sizeCap>>

\* destroy(): the wrapper leaves the page and this._events is emptied; the
\* children of the detached live area and both timers stay as they are
Destroy ==
    /\ destroyed' = TRUE
    /\ events' = {}
    /\ lastOp' = "destroy"
    /\ lastArg' = <<>>
    /\ emitted' = <<>>
    /\ thrown' = FALSE
    /\ caret' = -1
    /\ UNCHANGED <<el, md, doc, undoStack, redoStack, syncTimer, saveTimer, mode,
                   composing, histCap, sizeCap>>

\* a timer of _emitChange fires: its callback emits the html it captured and
\* the canonical string of the moment
AutosaveFire ==
    /\ saveTimer # <<>>
    /\ saveTimer' = Tail(saveTimer)
    /\ emitted' = <<emit("autosave", Head(saveTimer), md)>>
    /\ lastOp' = "autosave"
    /\ lastArg' = <<>>
    /\ Quiet
    /\ UNCHANGED <<el, md, doc, undoStack, redoStack, syncTimer, mode, composing,
                   histCap, sizeCap>>

\* Escape in _onKeydown
Escape ==
    /\ mode = "live"
    /\ FocusedIdx(doc) # 0
    /\ Commit("escape", <<>>, blurLine(doc, FocusedIdx(doc)), md, undoStack, redoStack,
              syncTimer, FALSE, mode)

\* ArrowUp in _onKeydown with the caret at offset 0 or 1
ArrowUp ==
    /\ mode = "live"
    /\ FocusedIdx(doc) # 0
    /\ prevLine(doc, FocusedIdx(doc)) # 0
    /\ LET f == FocusedIdx(doc)
       IN  Commit("arrow", <<>>, focusLine(blurLine(doc, f), prevLine(doc, f)),
                  md, undoStack, redoStack, syncTimer, FALSE, mode)

\* ArrowDown in _onKeydown with the caret at one of the last two offsets
ArrowDown ==
    /\ mode = "live"
    /\ FocusedIdx(doc) # 0
    /\ nextLine(doc, FocusedIdx(doc)) # 0
    /\ LET f == FocusedIdx(doc)
       IN  Commit("arrow", <<>>, focusLine(blurLine(doc, f), nextLine(doc, f)),
                  md, undoStack, redoStack, syncTimer, FALSE, mode)

\* the decimal digits, by value
DigitChars == <<"0", "1", "2", "3", "4", "5", "6", "7", "8", "9">>

RECURSIVE parseInt(_)
\* parseInt(digits, 10)
parseInt(ds) ==
    IF ds = <<>> THEN 0
    ELSE 10 * parseInt(SubSeq(ds, 1, Len(ds) - 1))
         + ((CHOOSE k \in 1..10 : DigitChars[k] = ds[Len(ds)]) - 1)

RECURSIVE numberString(_)
\* `${n}` for a number n >= 0
numberString(n) ==
    IF n < 10 THEN <<DigitChars[n + 1]>>
    ELSE Append(numberString(n \div 10), DigitChars[(n % 10) + 1])

\* text.match(/^([-*+]|\d+\.) /)[0] of a line of type ul or ol
listMarker(text) ==
    IF IsBullet(text) THEN SubSeq(text, 1, 2)
    ELSE SubSeq(text, 1, DigitRun(text, 1) + 2)

\* the continuation prefix with the number of a numbered item repeated
enterPrefixSameNumber(text) ==
    LET type == lineType(text)
    IN  IF type = "ul" THEN SubSeq(text, 1, 2)
        ELSE IF type = "ol"
             THEN numberString(parseInt(SubSeq(text, 1, DigitRun(text, 1))))
                      \o <<".", SP>>
        ELSE IF type = "bq"
             THEN (IF Len(text) >= 2 /\ text[2] = SP THEN <<">", SP>> ELSE <<">">>)
        ELSE <<>>

\* the continuation prefix _handleEnter computes
enterPrefix(text) ==
    LET type == lineType(text)
    IN  IF type = "ul" THEN SubSeq(text, 1, 2)
        ELSE IF type = "ol"
             THEN numberString(parseInt(SubSeq(text, 1, DigitRun(text, 1))) + 1)
                      \o <<".", SP>>
        ELSE IF type = "bq"
             THEN (IF Len(text) >= 2 /\ text[2] = SP THEN <<">", SP>> ELSE <<">">>)
        ELSE <<>>

\* _handleEnter(focused) with the caret at offset p, on children d
handleEnter(d, f, p) ==
    LET text == d[f].text
        type == lineType(text)
    IN  IF type \in {"ul", "ol"} /\ Trim(text) = listMarker(text)
        THEN LET d1 == insertAfter(setText(d, f, <<>>), f, makeLine(<<>>))
             IN  focusLine(blurLine(d1, f), f + 1)
        ELSE LET before == SubSeq(text, 1, p)
                 after == SubSeq(text, p + 1, Len(text))
                 d1 == insertAfter(setText(d, f, before), f,
                                   makeLine(enterPrefix(text) \o after))
             IN  focusLine(blurLine(d1, f), f + 1)

\* Enter (without Shift) in _onKeydown
Enter(p) ==
    /\ mode = "live"
    /\ FocusedIdx(doc) # 0
    /\ p <= Len(doc[FocusedIdx(doc)].text)
    /\ CommitSynced("enter", handleEnter(doc, FocusedIdx(doc), p))

\* Backspace in _onKeydown, caret at offset 0 of an empty line: delete the line
BackspaceEmpty ==
    /\ mode = "live"
    /\ FocusedIdx(doc) # 0
    /\ doc[FocusedIdx(doc)].text = <<>>
    /\ LET f == FocusedIdx(doc)
           prev == prevLine(doc, f)
           s == Sync(removeAt(doc, f), md, undoStack, redoStack)
           d == IF prev # 0
                THEN LET d1 == blurLine(s.doc, FocusedIdx(s.doc))
                     IN  [d1 EXCEPT ![prev] = editLine(d1[prev], d1[prev].md)]
                ELSE s.doc
       IN  Commit("backspace", <<>>, d, s.md, s.undo, s.redo, syncTimer, TRUE, mode)

\* Math.min
Min(a, b) == IF a <= b THEN a ELSE b

\* the merged text with the text of the line before it left out
mergedTextOnly(prevMd, text) == text

\* const merged = prevMd + text
mergedText(prevMd, text) == prevMd \o text

\* Backspace in _onKeydown, caret at offset 0 of a non-empty line: merge
BackspaceMerge ==
    /\ mode = "live"
    /\ FocusedIdx(doc) # 0
    /\ doc[FocusedIdx(doc)].text # <<>>
    /\ prevLine(doc, FocusedIdx(doc)) # 0
    /\ ~doc[prevLine(doc, FocusedIdx(doc))].cb
    /\ LET f == FocusedIdx(doc)
           prev == prevLine(doc, f)
           merged == mergedText(doc[prev].md, doc[f].text)
           d1 == removeAt(doc, f)
           d2 == [d1 EXCEPT ![prev] = [editLine(d1[prev], merged) EXCEPT !.md = merged]]
       IN  CommitSyncedAt("backspace", d2, Min(Len(doc[prev].md), Len(merged)))

\* Backspace in _onKeydown, caret at offset 0 of a non-empty line that has no
\* previous sibling or a code block for one: _handleBackspace does nothing
\* and the browser has nothing to delete before the caret
BackspaceNoMerge ==
    /\ mode = "live"
    /\ FocusedIdx(doc) # 0
    /\ doc[FocusedIdx(doc)].text # <<>>
    /\ IF prevLine(doc, FocusedIdx(doc)) = 0 THEN TRUE
       ELSE doc[prevLine(doc, FocusedIdx(doc))].cb
    /\ Commit("backspace", <<>>, doc, md, undoStack, redoStack, syncTimer, FALSE, mode)

\* Backspace with the caret at offset p > 0: the browser deletes one character,
\* then _onInput
BackspaceChar(p) ==
    /\ mode = "live"
    /\ FocusedIdx(doc) # 0
    /\ p <= Len(doc[FocusedIdx(doc)].text)
    /\ LET f == FocusedIdx(doc)
           t == doc[f].text
           t1 == SubSeq(t, 1, p - 1) \o SubSeq(t, p + 1, Len(t))
           d == onInput([doc EXCEPT ![f] = [@ EXCEPT !.text = t1]])
       IN  Commit("input", <<>>, d, md, undoStack, redoStack, onInputTimer,
                  FALSE, mode)

RECURSIVE insertLinesAfterSameRef(_, _, _)
\* the loop of _insertText with every new line put after the first
insertLinesAfterSameRef(d, ref, ls) ==
    IF ls = <<>> THEN d
    ELSE insertLinesAfterSameRef(insertAfter(d, ref, makeLine(ls[1])), ref, Tail(ls))

RECURSIVE insertLinesAfter(_, _, _)
\* the loop of _insertText: one new line after another, each after the last
insertLinesAfter(d, ref, ls) ==
    IF ls = <<>> THEN d
    ELSE insertLinesAfter(insertAfter(d, ref, makeLine(ls[1])), ref + 1, Tail(ls))

\* _insertText(text) with the caret at offset p of the editing line
insertText(d, text, p) ==
    LET f == FocusedIdx(d)
        lines == SplitLines(text)
    IN  IF f = 0 THEN d \o [i \in 1..Len(lines) |-> makeLine(lines[i])]
        ELSE LET cur == d[f].text
             IN  IF Len(lines) = 1
                 THEN setText(d, f, SubSeq(cur, 1, p) \o text \o SubSeq(cur, p + 1, Len(cur)))
                 ELSE LET n == Len(lines)
                          first == SubSeq(cur, 1, p) \o lines[1]
                          rest == SubSeq(lines, 2, n - 1)
                                    \o <<lines[n] \o SubSeq(cur, p + 1, Len(cur))>>
                          d1 == blurLine(setText(d, f, first), f)
                          d2 == insertLinesAfter(d1, f, rest)
                      IN  focusLine(d2, f + Len(rest))

\* _onPaste of a plain text holding a line break
Paste(text, p) ==
    /\ mode = "live"
    /\ IF FocusedIdx(doc) = 0 THEN p = 0 ELSE p <= Len(doc[FocusedIdx(doc)].text)
    /\ CommitSynced("paste", insertText(doc, text, p))

\* the snippet _execCommand appends when no line is focused
snippet(cmd) ==
    IF cmd = "hr" THEN <<"-", "-", "-">>
    ELSE IF cmd = "ul" THEN <<"-", SP, "I", "t", "e", "m">>
    ELSE <<BT, BT, BT, "j", "a", "v", "a", "s", "c", "r", "i", "p", "t", LF,
           "/", "/", SP, "c", "o", "d", "e", SP, "h", "e", "r", "e", LF, BT, BT, BT>>

\* length of the run of white space of s that starts at position i
SpaceRun(s, i) ==
    IF \A k \in i..Len(s) : s[k] \in WhiteSpace THEN Len(s) - i + 1
    ELSE (CHOOSE k \in i..Len(s) :
              s[k] \notin WhiteSpace /\ \A j \in i..(k - 1) : s[j] \in WhiteSpace) - i

\* current.replace(/^#+\s*|^> ?|^[-*+] |\d+\. /, '')
stripMarker(s) ==
    IF Len(s) >= 1 /\ s[1] = "#"
    THEN SubSeq(s, LeadRun(s, "#") + SpaceRun(s, LeadRun(s, "#") + 1) + 1, Len(s))
    ELSE IF Len(s) >= 1 /\ s[1] = ">"
    THEN SubSeq(s, (IF Len(s) >= 2 /\ s[2] = SP THEN 3 ELSE 2), Len(s))
    ELSE IF IsBullet(s) THEN SubSeq(s, 3, Len(s))
    ELSE IF \E i \in 1..Len(s) : NumberedAt(s, i)
    THEN LET i == CHOOSE k \in 1..Len(s) :
                      NumberedAt(s, k) /\ \A j \in 1..(k - 1) : ~NumberedAt(s, j)
         IN  SubSeq(s, 1, i - 1) \o SubSeq(s, i + DigitRun(s, i) + 2, Len(s))
    ELSE s

\* _togglePrefix(el, prefix)
togglePrefix(d, f, prefix) ==
    LET current == d[f].text
        clean == stripMarker(current)
    IN  setText(d, f, IF StartsWith(current, prefix) THEN clean ELSE prefix \o clean)

\* _execCommand(cmd) while no line is being edited: append a snippet and redraw
ExecCommandUnfocused(cmd) ==
    /\ FocusedIdx(doc) = 0
    /\ LET m == IF md # <<>> THEN md \o <<LF>> \o snippet(cmd) ELSE snippet(cmd)
       IN  Commit("command", <<>>, Draw(m), m, undoStack, redoStack,
                  syncTimer, TRUE, mode)

\* _execCommand(cmd) on the editing line; lang answers the code block prompt
ExecCommandFocused(cmd, lang) ==
    /\ FocusedIdx(doc) # 0
    /\ cmd = "codeblock" \/ lang = <<>>
    /\ LET f == FocusedIdx(doc)
           d == IF cmd = "codeblock"
                THEN insertAfter(blurLine(doc, f), f, makeCodeBlock(lang, <<>>))
                ELSE IF cmd = "hr"
                THEN insertAfter(blurLine(doc, f), f, makeLine(<<"-", "-", "-">>))
                ELSE LET d1 == togglePrefix(doc, f, <<"-", SP>>)
                     IN  [d1 EXCEPT ![f] = [@ EXCEPT !.md = d1[f].text]]
       IN  CommitSynced("command", d)

\* this._md and the two stacks
History == [md |-> md, undo |-> undoStack, redo |-> redoStack]

\* the assignments of _undo() to this._md and the stacks
undo(h) ==
    IF h.undo = <<>> THEN h
    ELSE [md |-> h.undo[Len(h.undo)],
          undo |-> SubSeq(h.undo, 1, Len(h.undo) - 1),
          redo |-> Append(h.redo, h.md)]

\* the assignments of _redo() without the push on the undo stack
redoNoPush(h) ==
    IF h.redo = <<>> THEN h
    ELSE [md |-> h.redo[Len(h.redo)],
          undo |-> h.undo,
          redo |-> SubSeq(h.redo, 1, Len(h.redo) - 1)]

\* the assignments of _redo() to this._md and the stacks
redo(h) ==
    IF h.redo = <<>> THEN h
    ELSE [md |-> h.redo[Len(h.redo)],
          undo |-> Append(h.undo, h.md),
          redo |-> SubSeq(h.redo, 1, Len(h.redo) - 1)]

\* _undo()
Undo ==
    /\ undoStack # <<>>
    /\ LET s == undo(History)
       IN  Commit("undo", <<>>, Draw(s.md), s.md, s.undo, s.redo, syncTimer, TRUE, mode)

\* _undo() with nothing to undo: the early return
UndoEmpty ==
    /\ undoStack = <<>>
    /\ LET s == undo(History)
       IN  Commit("undoEmpty", <<>>, doc, s.md, s.undo, s.redo, syncTimer, FALSE, mode)

\* _redo() with nothing to redo: the early return
RedoEmpty ==
    /\ redoStack = <<>>
    /\ LET s == redo(History)
       IN  Commit("redoEmpty", <<>>, doc, s.md, s.undo, s.redo, syncTimer, FALSE, mode)

\* _redo()
Redo ==
    /\ redoStack # <<>>
    /\ LET s == redo(History)
       IN  Commit("redo", <<>>, Draw(s.md), s.md, s.undo, s.redo, syncTimer, TRUE, mode)

\* _setMode(mode)
SetMode(m) ==
    Commit("setMode", <<>>, blurLine(doc, FocusedIdx(doc)), md, undoStack, redoStack,
           syncTimer, FALSE, m)

\* the input handler of the source textarea
SourceInput(v) ==
    /\ mode = "source"
    /\ Commit("sourceInput", v, doc, v, undoStack, redoStack, syncTimer, TRUE, mode)

\* loadValue(value) on a mounted editor; html is the result of htmlToMarkdown
LoadValue(value, html) ==
    /\ isHtml(value) \/ html = <<>>
    /\ LET m == loadText(value, html)
       IN  Commit("loadValue", value, Draw(m), m, undoStack, redoStack,
                  syncTimer, FALSE, mode)

\* clear() without the reset of the two stacks
ClearKeepsHistory ==
    Commit("clear", <<>>, Draw(<<>>), <<>>, undoStack, redoStack,
           syncTimer, FALSE, mode)

\* clear() on a mounted editor
Clear ==
    Commit("clear", <<>>, Draw(<<>>), <<>>, <<>>, <<>>, syncTimer, FALSE, mode)

----------------------------------------------------------------------------
(* Specifications *)

\* the live pane: mouse, keyboard, clipboard, the code block command, undo and redo
Next ==
    \/ \E i \in 1..Len(doc) : Click(i)
    \/ ClickEmpty
    \/ \E i \in 1..Len(doc), p \in 0..MaxLineLen, c \in TypeChars :
           p <= Len(doc[i].text) /\ TypeChar(i, p, c)
    \/ SyncTimerFire
    \/ Escape
    \/ \E i \in 1..Len(doc), p \in 0..MaxCodeLen, c \in CodeChars :
           p <= Len(doc[i].code) /\ CodeInput(i, p, c)
    \/ ArrowUp
    \/ ArrowDown
    \/ \E p \in 0..MaxLineLen : Enter(p)
    \/ BackspaceEmpty
    \/ BackspaceMerge
    \/ \E p \in 1..MaxLineLen : BackspaceChar(p)
    \/ \E t \in PasteTexts, p \in 0..MaxLineLen : Paste(t, p)
    \/ \E lang \in Langs : ExecCommandFocused("codeblock", lang)
    \/ Undo
    \/ Redo

Spec == Init /\ [][Next]_vars

\* the toolbar, the mode pills, the source pane and the public API
NextApi ==
    \/ \E i \in 1..Len(doc) : Click(i)
    \/ ExecCommandUnfocused("hr")
    \/ ExecCommandFocused("hr", <<>>)
    \/ Undo
    \/ Redo
    \/ \E m \in Modes : SetMode(m)
    \/ \E v \in SourceTexts : SourceInput(v)
    \/ \E v \in LoadTexts, h \in HtmlResults \cup {<<>>} : LoadValue(v, h)
    \/ Clear
    \/ AutosaveFire

SpecApi == Init /\ [][NextApi]_vars

\* loadValue and clear over every argument of AllLoadTexts
NextLoad ==
    \/ \E v \in AllLoadTexts, h \in HtmlResults \cup {<<>>} : LoadValue(v, h)
    \/ Clear

SpecLoad == Init /\ [][NextLoad]_vars

\* after construction and init() with an initialValue of DrawTexts
InitDraw ==
    /\ \E v \in DrawTexts :
           /\ md = loadText(v, <<>>)
           /\ doc = Draw(loadText(v, <<>>))
    /\ undoStack = <<>>
    /\ redoStack = <<>>
    /\ syncTimer = 0
    /\ saveTimer = <<>>
    /\ mode = "live"
    /\ lastOp = "init"
    /\ lastArg = <<>>
    /\ composing = FALSE
    /\ emitted = <<>>
    /\ events = {}
    /\ destroyed = FALSE
    /\ el = TRUE
    /\ thrown = FALSE
    /\ caret = -1
    /\ histCap = MaxHist
    /\ sizeCap = DrawCap

\* the parser and the canonicaliser on documents with code blocks: click and
\* Enter on a line, Backspace in a code block, undo
NextDraw ==
    \/ \E i \in 1..Len(doc) : Click(i)
    \/ \E p \in 0..MaxDrawLineLen : Enter(p)
    \/ \E i \in 1..Len(doc) : CodeBackspace(i)
    \/ Undo

SpecDraw == InitDraw /\ [][NextDraw]_vars

\* editing with an input method: text typed during a composition, and every
\* way out of the editing form
NextEdit ==
    \/ \E i \in 1..Len(doc) : Click(i)
    \/ ClickEmpty
    \/ CompositionStart
    \/ CompositionEnd
    \/ \E i \in 1..Len(doc), p \in 0..MaxLineLen, c \in TypeChars :
           p <= Len(doc[i].text) /\ TypeChar(i, p, c)
    \/ SyncTimerFire
    \/ Escape
    \/ ArrowUp
    \/ ArrowDown
    \/ \E p \in 0..MaxLineLen : Enter(p)
    \/ BackspaceEmpty
    \/ BackspaceMerge
    \/ \E m \in Modes : SetMode(m)

SpecEdit == Init /\ [][NextEdit]_vars

\* after construction and init() with an initialValue of ClassifyTexts
InitClassify ==
    /\ \E v \in ClassifyTexts :
           /\ md = loadText(v, <<>>)
           /\ doc = Draw(loadText(v, <<>>))
    /\ undoStack = <<>>
    /\ redoStack = <<>>
    /\ syncTimer = 0
    /\ saveTimer = <<>>
    /\ mode = "live"
    /\ lastOp = "init"
    /\ lastArg = <<>>
    /\ composing = FALSE
    /\ emitted = <<>>
    /\ events = {}
    /\ destroyed = FALSE
    /\ el = TRUE
    /\ thrown = FALSE
    /\ caret = -1
    /\ histCap = MaxHist
    /\ sizeCap = ClassifyCap

\* one line rendered, edited and rendered again: renderLine classifies it
NextClassify ==
    \/ \E i \in 1..Len(doc) : Click(i)
    \/ Escape

SpecClassify == InitClassify /\ [][NextClassify]_vars

\* a line that holds one backtick is being edited, its text canonicalised:
\* the editor after a click on the first line, one typed character and the
\* deferred sync
InitHist ==
    /\ md = <<BT>>
    /\ doc = <<editLine(makeLine(<<BT>>), <<BT>>)>>
    /\ undoStack = <<>>
    /\ redoStack = <<>>
    /\ syncTimer = 0
    /\ saveTimer = <<getValue(<<BT>>)>>
    /\ mode = "live"
    /\ lastOp = "deferredSync"
    /\ lastArg = <<>>
    /\ composing = FALSE
    /\ emitted = <<emit("change", getValue(<<BT>>), <<BT>>)>>
    /\ events = {}
    /\ destroyed = FALSE
    /\ el = TRUE
    /\ thrown = FALSE
    /\ caret = -1
    /\ histCap = UndoLimit + 1
    /\ sizeCap = NarrowCap

\* the bullet command toggled on one line, with undo and redo: a long history
NextHist ==
    \/ \E i \in 1..Len(doc) : Click(i)
    \/ ExecCommandFocused("ul", <<>>)
    \/ Undo
    \/ Redo
    \/ UndoEmpty
    \/ RedoEmpty

SpecHist == InitHist /\ [][NextHist]_vars

\* construction with a text of CodeTexts
InitCode ==
    /\ \E v \in CodeTexts :
           /\ md = loadText(v, <<>>)
           /\ doc = Draw(loadText(v, <<>>))
    /\ undoStack = <<>>
    /\ redoStack = <<>>
    /\ syncTimer = 0
    /\ saveTimer = <<>>
    /\ mode = "live"
    /\ lastOp = "init"
    /\ lastArg = <<>>
    /\ composing = FALSE
    /\ emitted = <<>>
    /\ events = {}
    /\ destroyed = FALSE
    /\ el = TRUE
    /\ thrown = FALSE
    /\ caret = -1
    /\ histCap = MaxHist
    /\ sizeCap = CodeCap

\* the keys of a code block's textarea, beside clicks on the lines around it
NextCode ==
    \/ \E i \in 1..Len(doc) : Click(i)
    \/ \E i \in 1..Len(doc) : \E p \in 0..MaxTabCodeLen : \E c \in CodeChars :
           p <= Len(doc[i].code) /\ CodeInput(i, p, c)
    \/ \E i \in 1..Len(doc) : \E start, end \in 0..MaxTabCodeLen : CodeTab(i, start, end)
    \/ \E i \in 1..Len(doc) : CodeArrowUp(i)
    \/ \E i \in 1..Len(doc) : CodeArrowDown(i)
    \/ SyncTimerFire

SpecCode == InitCode /\ [][NextCode]_vars

\* construction with a text of InlineTexts
InitInline ==
    /\ \E v \in InlineTexts :
           /\ md = loadText(v, <<>>)
           /\ doc = Draw(loadText(v, <<>>))
    /\ undoStack = <<>>
    /\ redoStack = <<>>
    /\ syncTimer = 0
    /\ saveTimer = <<>>
    /\ mode = "live"
    /\ lastOp = "init"
    /\ lastArg = <<>>
    /\ composing = FALSE
    /\ emitted = <<>>
    /\ events = {}
    /\ destroyed = FALSE
    /\ el = TRUE
    /\ thrown = FALSE
    /\ caret = -1
    /\ histCap = MaxHist
    /\ sizeCap = InlineCap

\* a line is put in editing form and rendered again
NextInline ==
    \/ \E i \in 1..Len(doc) : Click(i)
    \/ Escape

SpecInline == InitInline /\ [][NextInline]_vars

\* construction with no initialValue, for the exploration of the HTML converter
InitPre ==
    /\ md = <<>>
    /\ doc = Draw(<<>>)
    /\ undoStack = <<>>
    /\ redoStack = <<>>
    /\ syncTimer = 0
    /\ saveTimer = <<>>
    /\ mode = "live"
    /\ lastOp = "init"
    /\ lastArg = <<>>
    /\ composing = FALSE
    /\ emitted = <<>>
    /\ events = {}
    /\ destroyed = FALSE
    /\ el = TRUE
    /\ thrown = FALSE
    /\ caret = -1
    /\ histCap = MaxHist
    /\ sizeCap = DrawCap

\* loadValue of an HTML string, clicks and clear()
NextPre ==
    \/ \E body \in PreBodies : LoadValue(bodyHTML(body), htmlToMarkdown(body))
    \/ \E i \in 1..Len(doc) : Click(i)
    \/ Clear

SpecPre == InitPre /\ [][NextPre]_vars

\* the events of the public API
EventNames == {"change", "save", "autosave"}

\* typing and a toolbar command with handlers registered, then destroy(): the
\* page sends no event to a detached editor, the timers still run
NextDestroy ==
    \/ /\ ~destroyed
       /\ \/ \E e \in EventNames : On(e)
          \/ \E i \in 1..Len(doc) : Click(i)
          \/ \E i \in 1..Len(doc) : \E p \in 0..MaxLineLen : \E c \in TypeChars :
                 p <= Len(doc[i].text) /\ TypeChar(i, p, c)
          \/ ExecCommandUnfocused("hr")
    \/ Destroy
    \/ SyncTimerFire
    \/ AutosaveFire

SpecDestroy == Init /\ [][NextDestroy]_vars

\* the Enter key on one line of marker characters
NextEnter ==
    \/ \E i \in 1..Len(doc) : Click(i)
    \/ \E p \in 0..MaxHeadingLen : Enter(p)
    \/ Escape

SpecEnter == InitClassify /\ [][NextEnter]_vars

\* construction with a text of MergeTexts
InitMerge ==
    /\ \E v \in MergeTexts :
           /\ md = loadText(v, <<>>)
           /\ doc = Draw(loadText(v, <<>>))
    /\ undoStack = <<>>
    /\ redoStack = <<>>
    /\ syncTimer = 0
    /\ saveTimer = <<>>
    /\ mode = "live"
    /\ lastOp = "init"
    /\ lastArg = <<>>
    /\ composing = FALSE
    /\ emitted = <<>>
    /\ events = {}
    /\ destroyed = FALSE
    /\ el = TRUE
    /\ thrown = FALSE
    /\ caret = -1
    /\ histCap = MaxHist
    /\ sizeCap = NarrowCap

\* Backspace at the start of a line, beside clicks, Enter and Escape
NextMerge ==
    \/ \E i \in 1..Len(doc) : Click(i)
    \/ \E p \in 0..MaxLineLen : Enter(p)
    \/ Escape
    \/ BackspaceMerge
    \/ BackspaceNoMerge

SpecMerge == InitMerge /\ [][NextMerge]_vars

\* construction with a text of MergeTexts, for the multi-line insert
InitInsert ==
    /\ \E v \in MergeTexts :
           /\ md = loadText(v, <<>>)
           /\ doc = Draw(loadText(v, <<>>))
    /\ undoStack = <<>>
    /\ redoStack = <<>>
    /\ syncTimer = 0
    /\ saveTimer = <<>>
    /\ mode = "live"
    /\ lastOp = "init"
    /\ lastArg = <<>>
    /\ composing = FALSE
    /\ emitted = <<>>
    /\ events = {}
    /\ destroyed = FALSE
    /\ el = TRUE
    /\ thrown = FALSE
    /\ caret = -1
    /\ histCap = MaxHist
    /\ sizeCap = InsertCap

\* a paste of several lines, beside clicks, Escape and undo
NextInsert ==
    \/ \E i \in 1..Len(doc) : Click(i)
    \/ \E t \in InsertTexts, p \in 0..MaxLineLen : Paste(t, p)
    \/ Escape
    \/ Undo

SpecInsert == InitInsert /\ [][NextInsert]_vars

\* changes and the autosave timer: the Enter key, a toolbar command, undo,
\* redo and clear(); a timer that is set fires unless it is cleared first
NextSave ==
    \/ \E i \in 1..Len(doc) : Click(i)
    \/ \E p \in 0..MaxLineLen : Enter(p)
    \/ ExecCommandUnfocused("hr")
    \/ Undo
    \/ Redo
    \/ Clear
    \/ AutosaveFire

SpecSave == Init /\ [][NextSave]_vars /\ WF_vars(AutosaveFire)

----------------------------------------------------------------------------
(* Properties *)

\* handlers that edit the document and are neither undo nor redo
EditOps == {"deferredSync", "enter", "backspace", "paste", "command", "sourceInput"}

\* children of the live area in raw editing form
Editing(d) == {i \in 1..Len(d) : d[i].ed}

\* C1: round trip. For the Document the editor is in, with s the string _sync
\* serialises from it, rebuilding the Document from s with _draw and
\* serialising again yields exactly s.
RoundTrip == Serialize(Draw(Serialize(doc))) = Serialize(doc)

\* C2: in every state the canonical string equals the join with line breaks of
\* the blocks of the Document: rawText of each line, fence, code lines and
\* fence of each code block.
CanonicalIsJoin == md = DocText(doc)

\* C3: at most one block of the Document is in Editing state.
SingleEditor == Cardinality(Editing(doc)) <= 1

\* C4: the undo stack never holds more than 150 snapshots; an edit that
\* pushes onto a stack of fewer than 150 appends the previous canonical string,
\* and one that pushes onto a full stack drops the oldest snapshot and keeps
\* the 150 most recent, in order.
HistoryBound ==
    [][/\ Len(undoStack') <= UndoLimit
       /\ (lastOp' \in EditOps /\ undoStack' # undoStack) =>
              undoStack' = (IF Len(undoStack) = UndoLimit
                            THEN Tail(undoStack) ELSE undoStack) \o <<md>>]_vars

\* C4 witness: the stack is full after a toolbar edit and its oldest entry is
\* no longer the first snapshot ever pushed (the one-backtick document)
HistoryEvicted ==
    /\ lastOp = "command"
    /\ Len(undoStack) = UndoLimit
    /\ undoStack[1] # <<BT>>
    /\ undoStack[UndoLimit] # md

\* C5: an edit other than undo and redo that changes the canonical string
\* leaves the redo stack empty.
RedoInvalidated ==
    [][(lastOp' \in EditOps /\ md' # md) => redoStack' = <<>>]_vars

\* C6: an edit other than undo and redo that changes the canonical string from
\* A to B leaves A on top of the undo stack, for every A.
SnapshotPushed ==
    [][(lastOp' \in EditOps /\ md' # md) =>
           (undoStack' # <<>> /\ undoStack'[Len(undoStack')] = md)]_vars

\* C7: the Document holds at least one block, and an empty canonical string
\* goes with exactly one empty line.
NeverEmpty ==
    /\ Len(doc) >= 1
    /\ md = <<>> /\ DocText(doc) = <<>> => Len(doc) = 1 /\ ~doc[1].cb

\* C8: after clear() the canonical string is empty, the Document is one empty
\* rendered line and both stacks are empty.
ClearResets ==
    lastOp = "clear" =>
        /\ md = <<>>
        /\ Len(doc) = 1
        /\ ~doc[1].cb /\ ~doc[1].ed /\ doc[1].md = <<>>
        /\ undoStack = <<>>
        /\ redoStack = <<>>

\* C8 witness: clear() has run in source mode, after a change was notified
ClearRan == lastOp = "clear" /\ mode = "source" /\ saveTimer # <<>>

\* C9: after loadValue the Document is the one rebuilt from the loaded string
\* and both stacks are empty.
LoadClearsHistory ==
    lastOp = "loadValue" =>
        /\ doc = Draw(md)
        /\ undoStack = <<>>
        /\ redoStack = <<>>

\* the line breaks of v made uniform: a \r that is followed by \n is dropped,
\* every other \r becomes \n
UniformEOL(v) ==
    LET keep == {i \in 1..Len(v) : ~(v[i] = CR /\ i < Len(v) /\ v[i + 1] = LF)}
        nth(k) == CHOOSE i \in keep : Cardinality({j \in keep : j < i}) = k - 1
    IN  [k \in 1..Cardinality(keep) |->
            IF v[nth(k)] = CR THEN LF ELSE v[nth(k)]]

\* C10: after loadValue(v) of a string without a markup tag the canonical
\* string is v with every \r\n and every lone \r replaced by \n, and after
\* loadValue of any string the canonical string holds no \r.
LoadNormalizes ==
    lastOp = "loadValue" =>
        /\ ~isHtml(lastArg) => md = UniformEOL(lastArg)
        /\ \A i \in 1..Len(md) : md[i] # CR

\* C10 witness: a loaded string without a tag that holds a lone \r
LoadedLoneCR ==
    /\ lastOp = "loadValue"
    /\ ~isHtml(lastArg)
    /\ \E i \in 1..Len(lastArg) :
           lastArg[i] = CR /\ (i = Len(lastArg) \/ lastArg[i + 1] # LF)

\* handlers that end with _draw() of the canonical string
DrawOps == {"init", "loadValue", "clear", "undo", "redo"}

\* handlers that end with _sync() of the live area
SyncOps == {"enter", "backspace", "paste", "deferredSync"}

\* children built by makeCodeBlock
CodeBlocks(d) == {i \in 1..Len(d) : d[i].cb}

\* a line that opens a fence: three or more backticks or tildes at its start
OpensFence(line) == \E c \in {BT, TL} : LeadRun(line, c) >= 3

\* a bare closing fence of character c: three or more of c, then only white space
ClosesFence(line, c) ==
    /\ LeadRun(line, c) >= 3
    /\ \A i \in (LeadRun(line, c) + 1)..Len(line) : line[i] \in WhiteSpace

\* index of the first line after line i that closes the fence line i opens with
\* a fence of the same character; Len(lines) + 1 when none does
CloserOf(lines, i) ==
    LET closers == {k \in (i + 1)..Len(lines) : ClosesFence(lines[k], lines[i][1])}
    IN  IF closers = {} THEN Len(lines) + 1
        ELSE CHOOSE k \in closers : \A j \in closers : k <= j

\* the trailing token of an opening fence, trimmed
TrailingToken(line) == Trim(SubSeq(line, LeadRun(line, line[1]) + 1, Len(line)))

RECURSIVE Unterminated(_, _)
\* index of the opening fence that no closing fence follows, scanning from
\* line i outside any fenced region; 0 when every opened fence is closed
Unterminated(lines, i) ==
    IF i > Len(lines) THEN 0
    ELSE IF OpensFence(lines[i])
    THEN (IF CloserOf(lines, i) > Len(lines) THEN i
          ELSE Unterminated(lines, CloserOf(lines, i) + 1))
    ELSE Unterminated(lines, i + 1)

RECURSIVE Blocks(_, _)
\* the blocks of a text whose fences are all matched, from line i: one code
\* block per fence pair holding the interior lines, one rendered line per line
\* outside the pairs
Blocks(lines, i) ==
    IF i > Len(lines) THEN <<>>
    ELSE IF OpensFence(lines[i])
    THEN <<makeCodeBlock(TrailingToken(lines[i]),
                         JoinLines(SubSeq(lines, i + 1, CloserOf(lines, i) - 1)))>>
             \o Blocks(lines, CloserOf(lines, i) + 1)
    ELSE <<makeLine(lines[i])>> \o Blocks(lines, i + 1)

\* C11: fence balance. After _draw of a non-empty canonical string whose
\* fences are all matched pairs, the Document is exactly one code block per
\* pair, with the interior lines joined by line breaks as code and the trimmed
\* trailing token of the opening fence as language, and one rendered line,
\* holding the line verbatim, per line outside the pairs.
FenceBalance ==
    (lastOp \in DrawOps /\ md # <<>> /\ Unterminated(SplitLines(md), 1) = 0) =>
        doc = Blocks(SplitLines(md), 1)

\* C12: unterminated fence. After _draw of a canonical string in which a
\* fence is opened and no closing fence follows, the last block is one code
\* block with the language of that fence and all remaining lines as code.
UnterminatedFence ==
    LET lines == SplitLines(md)
        k == Unterminated(lines, 1)
    IN  (lastOp \in DrawOps /\ md # <<>> /\ k # 0) =>
            /\ doc # <<>>
            /\ doc[Len(doc)] = makeCodeBlock(TrailingToken(lines[k]),
                                   JoinLines(SubSeq(lines, k + 1, Len(lines))))

\* C13: same fence character. After _draw of a canonical string whose first
\* line opens a fence, the first block is a code block that runs up to the
\* first bare fence of the same character as the opening fence (or to the end
\* of the input): a fence of the other character does not close it.
SameCharCloses ==
    LET lines == SplitLines(md)
    IN  (lastOp \in DrawOps /\ md # <<>> /\ OpensFence(lines[1])) =>
            /\ doc # <<>>
            /\ doc[1].cb
            /\ doc[1].code = JoinLines(SubSeq(lines, 2, CloserOf(lines, 1) - 1))

RECURSIVE CanonFrom(_, _)
\* the canonical text of the blocks of d from index i: rawText for a line;
\* fence and language, the code, and a fence for a code block; a line break
\* between two contributions
CanonFrom(d, i) ==
    IF i > Len(d) THEN <<>>
    ELSE LET own == IF d[i].cb
                    THEN <<BT, BT, BT>> \o d[i].lang \o <<LF>> \o d[i].code
                             \o <<LF, BT, BT, BT>>
                    ELSE d[i].md
         IN  IF i = Len(d) THEN own ELSE own \o <<LF>> \o CanonFrom(d, i + 1)

\* [TextLine('Before'), CodeBlock('go', 'fmt.Println(1)'), TextLine('After')]
ExampleDoc ==
    <<makeLine(<<"B", "e", "f", "o", "r", "e">>),
      makeCodeBlock(<<"g", "o">>,
                    <<"f", "m", "t", ".", "P", "r", "i", "n", "t", "l", "n", "(", "1", ")">>),
      makeLine(<<"A", "f", "t", "e", "r">>)>>

\* 'Before\n```go\nfmt.Println(1)\n```\nAfter'
ExampleText ==
    <<"B", "e", "f", "o", "r", "e", LF, BT, BT, BT, "g", "o", LF,
      "f", "m", "t", ".", "P", "r", "i", "n", "t", "l", "n", "(", "1", ")", LF,
      BT, BT, BT, LF, "A", "f", "t", "e", "r">>

\* C14: canonicaliser output. After a handler that ends with _sync, the
\* canonical string is the contributions of the blocks in document order,
\* joined by single line breaks; the three-block example serialises to
\* 'Before', the go block and 'After'.
CanonicalOutput ==
    /\ lastOp \in SyncOps => md = CanonFrom(doc, 1)
    /\ Serialize(ExampleDoc) = ExampleText

\* C14 witness: Enter has canonicalised a Document with a text line and a code
\* block that has a language and more than one line of code
CanonicalisedCodeBlock ==
    /\ lastOp = "enter"
    /\ \E i \in CodeBlocks(doc) :
           doc[i].lang # <<>> /\ \E k \in 1..Len(doc[i].code) : doc[i].code[k] = LF
    /\ \E j \in 1..Len(doc) : ~doc[j].cb /\ doc[j].md # <<>>

\* C18: Backspace with the caret at the very start of a code block removes the
\* code block from the Document.
BackspaceDestroysCodeBlock ==
    [][lastOp' = "codeBackspace" =>
           Cardinality(CodeBlocks(doc')) < Cardinality(CodeBlocks(doc))]_vars

\* a is the end of b
IsSuffix(a, b) == Len(a) <= Len(b) /\ SubSeq(b, Len(b) - Len(a) + 1, Len(b)) = a

\* text lines in raw editing form
EditingLines(d) == {i \in 1..Len(d) : d[i].ed /\ ~d[i].cb}

\* C15: commit on exit. When a click, Escape, an arrow key or a mode switch
\* takes a text line out of Editing state, the line's rawText is afterwards the
\* text it displayed; when Backspace deletes or merges the line being edited,
\* its displayed text is afterwards the end of a line's rawText.
CommitOnExit ==
    [][/\ lastOp' \in {"click", "escape", "arrow", "setMode"} =>
              \A i \in EditingLines(doc) :
                  i \in EditingLines(doc') \/ doc'[i].md = doc[i].text
       /\ (lastOp' = "backspace" /\ FocusedIdx(doc) \in EditingLines(doc)
               /\ doc[FocusedIdx(doc)].text # <<>>) =>
              \E j \in 1..Len(doc') :
                  ~doc'[j].cb /\ IsSuffix(doc[FocusedIdx(doc)].text, doc'[j].md)]_vars

\* C15 witness: Escape during a composition has left a rendered line that
\* holds text
EscapedWhileComposing ==
    /\ lastOp = "escape"
    /\ composing
    /\ EditingLines(doc) = {}
    /\ \E i \in 1..Len(doc) : ~doc[i].cb /\ doc[i].md # <<>>

\* C16: when the timer of _deferSync runs _sync while text lines are in
\* Editing state, each of them stays in Editing state with its rawText set to
\* the text it displays, and the canonical string is built from these texts.
SyncCommitsEditing ==
    [][lastOp' = "deferredSync" =>
           /\ \A i \in EditingLines(doc) :
                  /\ i \in EditingLines(doc')
                  /\ doc'[i].text = doc[i].text
                  /\ doc'[i].md = doc[i].text
           /\ md' = CanonFrom(doc', 1)]_vars

\* C16 witness: _sync has run during a composition on a line that displays
\* text
SyncedWhileComposing ==
    /\ lastOp = "deferredSync"
    /\ composing
    /\ \E i \in EditingLines(doc) : doc[i].text # <<>> /\ IsSuffix(doc[i].text, md)

\* the kinds in the order lineType tests them; p is the default
KindOrder == <<"h6", "h5", "h4", "h3", "h2", "h1", "hr", "bq", "ul", "ol", "empty">>

\* the pattern of the k-th kind of KindOrder matches s
KindMatches(k, s) ==
    IF k <= 6 THEN IsHeading(s, 7 - k)
    ELSE IF k = 7 THEN IsRule(s)
    ELSE IF k = 8 THEN Len(s) >= 1 /\ s[1] = ">"
    ELSE IF k = 9 THEN IsBullet(s)
    ELSE IF k = 10 THEN NumberedAt(s, 1)
    ELSE Trim(s) = <<>>

\* the kinds of KindOrder whose pattern matches s, by index
Matching(s) == {k \in 1..Len(KindOrder) : KindMatches(k, s)}

\* C19: classification is total and deterministic. For the raw text s of every
\* text line, lineType(s) is one kind, the first of the fixed order whose
\* pattern matches and p when none does, and at most one pattern matches s.
ClassificationTotal ==
    \A i \in 1..Len(doc) :
        ~doc[i].cb =>
            LET s == doc[i].md
                m == Matching(s)
            IN  /\ lineType(s) \in {KindOrder[k] : k \in 1..Len(KindOrder)} \cup {"p"}
                /\ Cardinality(m) <= 1
                /\ lineType(s) = IF m = {} THEN "p"
                                 ELSE KindOrder[CHOOSE k \in m : \A j \in m : k <= j]

\* C19 witness: a line of three dashes and a space, which is a rule and no
\* bullet, has been edited and rendered again
RuleClassified ==
    /\ lastOp = "escape"
    /\ \E i \in 1..Len(doc) :
           ~doc[i].cb /\ doc[i].md = <<"-", "-", "-", SP>> /\ lineType(doc[i].md) = "hr"

\* C17: no code block is ever in the raw editing form; only text lines are.
CodeBlocksNeverEdit == \A i \in CodeBlocks(doc) : ~doc[i].ed

\* C20: debounce. At most one canonicalisation timer is pending; every input
\* leaves exactly one pending; when it fires, no timer is left, the change
\* notification is scheduled and the canonical string is the serialisation of
\* the Document with the latest code of the code blocks and the latest text of
\* the text lines.
DebounceOne ==
    [][/\ syncTimer' <= 1
       /\ lastOp' \in {"input", "codeinput"} => syncTimer' = 1
       /\ lastOp' = "deferredSync" =>
              /\ syncTimer' = 0
              /\ saveTimer' # <<>>
              /\ md' = CanonFrom(doc', 1)
              /\ \A i \in 1..Len(doc) : doc'[i].code = doc[i].code
              /\ \A i \in EditingLines(doc) : doc'[i].md = doc[i].text]_vars

\* C20 witness: two characters typed into the empty document were canonicalised
\* by one _sync, which found nothing to push (a _sync after the first character
\* would have made the second push a snapshot)
DebouncedOnce ==
    /\ lastOp = "deferredSync"
    /\ syncTimer = 0
    /\ md = <<BT, BT>>
    /\ undoStack = <<>>
    /\ redoStack = <<>>

\* the one call of _emit made by the last handler was for event e
Emitted(e) == Len(emitted) = 1 /\ emitted[1].event = e

\* C21: autosave debounce. At most one autosave timer is pending; a change
\* notification leaves exactly one pending, the one it scheduled; 'autosave'
\* is emitted only by the timer, once, leaving no timer behind; and while a
\* timer is pending an autosave eventually fires.
AutosaveDebounce ==
    /\ [][/\ Len(saveTimer') <= 1
          /\ (emitted' # <<>> /\ emitted'[1].event = "change") =>
                 /\ Len(emitted') = 1
                 /\ saveTimer' = <<emitted'[1].html>>
          /\ lastOp' = "autosave" =>
                 /\ Len(saveTimer) = 1
                 /\ saveTimer' = <<>>
                 /\ Len(emitted') = 1 /\ emitted'[1].event = "autosave"
          /\ (\E k \in 1..Len(emitted') : emitted'[k].event = "autosave") =>
                 lastOp' = "autosave"]_vars
    /\ (saveTimer # <<>>) ~> (lastOp = "autosave")

\* C21 witness: Enter and then undo each notified a change, and one autosave
\* has fired since with no timer left
AutosavedOnce ==
    /\ lastOp = "autosave"
    /\ Emitted("autosave")
    /\ saveTimer = <<>>
    /\ undoStack = <<>>
    /\ redoStack # <<>>

\* C22: when the autosave fires, its markdown argument is the canonical string
\* of that moment and its html argument is the rendering of that string.
AutosaveLatest ==
    lastOp = "autosave" =>
        /\ Emitted("autosave")
        /\ emitted[1].md = md
        /\ emitted[1].html = markdownToHtml(md)

\* C23: a step that changes the canonical string emits 'change' within the
\* same handler, with the new canonical string as its markdown argument.
ChangeOnMutation ==
    [][md' # md =>
           \E k \in 1..Len(emitted') :
               emitted'[k].event = "change" /\ emitted'[k].md = md']_vars

\* C24: ArrowUp at the first character of a code block and ArrowDown at its
\* last raise no error; they put the neighbouring text line, if there is one,
\* in focus, and change nothing when there is no neighbour.
CodeArrowNavigates ==
    [][lastOp' \in {"codeArrowUp", "codeArrowDown"} =>
           LET i == lastArg'[1]
               j == IF lastOp' = "codeArrowUp" THEN prevLine(doc, i) ELSE nextLine(doc, i)
           IN  /\ ~thrown'
               /\ (j # 0 /\ ~doc[j].cb) => doc'[j].ed
               /\ j = 0 => doc' = doc]_vars

\* C25: Tab in a code block with the selection [start, end) makes the code
\* code[0..start) + two spaces + code[end..), puts the caret at start + 2,
\* stores the code in the block at once, leaves one canonicalisation timer
\* pending and changes nothing else in the Document: no line is focused.
TabInsertsSpaces ==
    [][lastOp' = "codeTab" =>
           LET i == lastArg'[1]
               start == lastArg'[2]
               end == lastArg'[3]
               c == doc[i].code
           IN  /\ doc'[i].code =
                      SubSeq(c, 1, start) \o <<SP, SP>> \o SubSeq(c, end + 1, Len(c))
               /\ Len(doc'[i].code) = Len(c) - (end - start) + 2
               /\ caret' = start + 2
               /\ syncTimer' = 1
               /\ Len(doc') = Len(doc)
               /\ \A k \in 1..Len(doc) :
                      /\ k # i => doc'[k] = doc[k]
                      /\ doc'[k].ed = doc[k].ed /\ doc'[k].cb = doc[k].cb
               /\ ~thrown']_vars

\* C25 witness: Tab has replaced a selected character by two spaces
TabReplacedSelection ==
    /\ lastOp = "codeTab"
    /\ lastArg[2] < lastArg[3]
    /\ caret = lastArg[2] + 2
    /\ doc[lastArg[1]].code = <<SP, SP>>
    /\ syncTimer = 1

\* the tags of emphasis that inlineRender writes
EmphasisOpen == {"<em>", "<strong>", "<strong><em>"}
EmphasisClose == {"</em>", "</strong>", "</em></strong>"}

\* no emphasis element, opening tag to closing tag, stands between the
\* opening tag of a code span and the closing tag that follows it
CodeSpansIntact(h) ==
    \A i \in 1..Len(h) :
        h[i] = "<span class=\"ic\">" =>
            LET inside == (i + 1)..(RunEnd(h, i + 1, {"</span>"}) - 1)
            IN  ~ \E k, l \in inside :
                      k < l /\ h[k] \in EmphasisOpen /\ h[l] \in EmphasisClose

\* C26: in the HTML of every rendered text line the content of a backtick code
\* span holds no emphasis element: its asterisks are left as they are.
InlineCodeProtected ==
    \A i \in 1..Len(doc) :
        (~doc[i].cb /\ ~doc[i].ed) => CodeSpansIntact(renderLine(doc[i].md))

\* C27: after loadValue of the HTML of a <pre><code>, alone or after a
\* paragraph, the canonical string ends with the fenced block whose opening
\* fence carries the language of the class and whose interior is the text of
\* the code element less one final newline, every blank line kept.
PreVerbatim ==
    lastOp = "loadValue" =>
        \A body \in PreBodies :
            lastArg = bodyHTML(body) =>
                LET n == body[Len(body)]
                    lang == IF n.cls = <<>> THEN <<>> ELSE <<"j">>
                    fenced == <<BT, BT, BT>> \o lang \o <<LF>> \o dropFinalLF(n.text)
                                  \o <<LF, BT, BT, BT>>
                IN  IsSuffix(fenced, md)

\* C28: once destroy() has been called no canonicalisation timer and no
\* autosave timer is pending, neither has fired since, and no call of _emit
\* reaches a handler.
Teardown ==
    destroyed =>
        /\ syncTimer = 0
        /\ saveTimer = <<>>
        /\ lastOp \notin {"deferredSync", "autosave"}
        /\ \A k \in 1..Len(emitted) : emitted[k].event \notin events

\* the prefix a line continues with: the bullet and its space, the next number
\* with ". ", the > with the space that follows it if there is one
Continuation(t) ==
    IF lineType(t) = "ul" THEN <<t[1], SP>>
    ELSE IF lineType(t) = "ol"
         THEN numberString(parseInt(SubSeq(t, 1, DigitRun(t, 1))) + 1) \o <<".", SP>>
    ELSE IF lineType(t) = "bq" THEN <<">">> \o (IF Len(t) >= 2 /\ t[2] = SP THEN <<SP>> ELSE <<>>)
    ELSE <<>>

ListBreakOut ==
    [][(/\ lastOp' = "enter"
        /\ FocusedIdx(doc) \in EditingLines(doc)
        /\ lineType(doc[FocusedIdx(doc)].text) \in {"ul", "ol"}
        /\ doc[FocusedIdx(doc)].text = listMarker(doc[FocusedIdx(doc)].text)) =>
           LET f == FocusedIdx(doc)
           IN  /\ doc'[f].md = <<>>
               /\ ~doc'[f].ed
               /\ doc'[f + 1].ed
               /\ doc'[f + 1].text = <<>>]_vars

\* C31: Backspace at offset 0 of the non-empty text line in editing form,
\* with text t. After a text line with raw text q the two become one editing
\* line with text q + t in the place of the first, the caret at offset |q|,
\* the other children kept, and the canonical string is the serialisation of
\* the new Document; after a code block or at the top nothing changes.
BackspaceMerges ==
    [][(/\ lastOp' = "backspace"
        /\ FocusedIdx(doc) \in EditingLines(doc)
        /\ doc[FocusedIdx(doc)].text # <<>>) =>
           LET f == FocusedIdx(doc)
               t == doc[f].text
           IN  IF f > 1 /\ ~doc[f - 1].cb
               THEN LET q == doc[f - 1].md
                    IN  /\ Len(doc') = Len(doc) - 1
                        /\ doc'[f - 1].ed /\ ~doc'[f - 1].cb
                        /\ doc'[f - 1].text = q \o t
                        /\ doc'[f - 1].md = q \o t
                        /\ caret' = Len(q)
                        /\ EditingLines(doc') = {f - 1}
                        /\ \A k \in 1..(f - 2) : doc'[k] = doc[k]
                        /\ \A k \in (f + 1)..Len(doc) : doc'[k - 1] = doc[k]
                        /\ md' = CanonFrom(doc', 1)
               ELSE doc' = doc /\ md' = md]_vars

\* C31 witness: the line "b" was merged into the line "a" before it
MergedIntoPrevious ==
    /\ lastOp = "backspace"
    /\ Len(doc) = 1
    /\ doc[1].ed /\ doc[1].text = <<"a", "b">>
    /\ caret = 1
    /\ md = <<"a", "b">>

\* C32: a paste of a text T with a line break into the text line in editing
\* form, with text c and the caret at offset p, puts the lines of
\* c[0..p) + T + c[p..) in the place of that line, in order; the children
\* before and after are kept, the last of the new lines is the one text line
\* in editing form and the canonical string is the serialisation of the new
\* Document.
InsertSplitsLines ==
    [][(lastOp' = "paste" /\ FocusedIdx(doc) \in EditingLines(doc)) =>
           LET f == FocusedIdx(doc)
               c == doc[f].text
           IN  \E T \in InsertTexts, p \in 0..Len(c) :
                   LET lines == SplitLines(SubSeq(c, 1, p) \o T \o SubSeq(c, p + 1, Len(c)))
                       n == Len(lines)
                   IN  /\ Len(doc') = Len(doc) + n - 1
                       /\ \A k \in 1..(f - 1) : doc'[k] = doc[k]
                       /\ \A k \in (f + 1)..Len(doc) : doc'[k + n - 1] = doc[k]
                       /\ \A j \in 1..n :
                              ~doc'[f + j - 1].cb /\ doc'[f + j - 1].md = lines[j]
                       /\ EditingLines(doc') = {f + n - 1}
                       /\ doc'[f + n - 1].text = lines[n]
                       /\ md' = CanonFrom(doc', 1)]_vars

\* C32 witness: "x", an empty line and "x" were pasted in the middle of "ab"
PastedThreeLines ==
    /\ lastOp = "paste"
    /\ Len(doc) = 3
    /\ doc[1].md = <<"a", "x">> /\ ~doc[1].ed
    /\ doc[2].md = <<>> /\ ~doc[2].ed
    /\ doc[3].ed /\ doc[3].text = <<"b">>

\* C33: in every state reached by a step, undo then redo gives back the
\* canonical string and both stacks when there is something to undo, redo
\* then undo does when there is something to redo, and an undo or a redo that
\* finds its stack empty changes neither them nor the Document and emits
\* nothing.
UndoRedoInverse ==
    [][/\ undoStack' # <<>> => redo(undo(History'))  = History'
       /\ redoStack' # <<>> => undo(redo(History')) = History'
       /\ lastOp' \in {"undoEmpty", "redoEmpty"} =>
              /\ History' = History
              /\ doc' = doc
              /\ emitted' = <<>>
              /\ saveTimer' = saveTimer]_vars

\* C33 witness: a redo has run with both stacks holding snapshots
RedoneBetweenSnapshots ==
    /\ lastOp = "redo"
    /\ Len(undoStack) >= 2
    /\ Len(redoStack) >= 2
    /\ undo(History).md = undoStack[Len(undoStack)]

\* C34: an undo or a redo that follows text input directly records the
\* serialisation of the Document with the typed text in the history: on top
\* of the redo stack after undo, on top of the undo stack after redo.
TypedTextKept ==
    [][(lastOp = "input" /\ FocusedIdx(doc) \in EditingLines(doc)) =>
           /\ lastOp' = "undo" => redoStack'[Len(redoStack')] = CanonFrom(doc, 1)
           /\ lastOp' = "redo" => undoStack'[Len(undoStack')] = CanonFrom(doc, 1)]_vars

\* C35: when the user returns to live mode right after an input in the source
\* pane, the live Document serialises to the canonical string the source pane
\* set, so the next live edit starts from it.
SourceEditKept ==
    [][(lastOp = "sourceInput" /\ lastOp' = "setMode" /\ mode' = "live") =>
           Serialize(doc') = md']_vars

\* C36: right after loadValue, undo or redo has set the canonical string and
\* rebuilt the Document, a canonicalisation changes nothing: _sync serialises
\* the Document to the same string and leaves both stacks as they are.
RebuildLossless ==
    lastOp \in {"loadValue", "undo", "redo"} =>
        LET s == Sync(doc, md, undoStack, redoStack)
        IN  /\ s.md = md
            /\ s.undo = undoStack
            /\ s.redo = redoStack

----------------------------------------------------------------------------
(* The public API of an editor that is not mounted *)

\* after the constructor, before init(): this._el, this._wrap and this._live
\* are null, the canonical string and both stacks are empty
InitUnmounted ==
    /\ md = <<>>
    /\ doc = <<>>
    /\ undoStack = <<>>
    /\ redoStack = <<>>
    /\ syncTimer = 0
    /\ saveTimer = <<>>
    /\ mode = "live"
    /\ lastOp = "constructor"
    /\ lastArg = <<>>
    /\ composing = FALSE
    /\ emitted = <<>>
    /\ events = {}
    /\ destroyed = FALSE
    /\ el = FALSE
    /\ thrown = FALSE
    /\ caret = -1
    /\ histCap = MaxHist
    /\ sizeCap = NarrowCap

\* _syncHidden() reads this._el.nextElementSibling: a TypeError when this._el
\* is null
syncHiddenThrows(e) == ~e

\* the state a public method leaves behind when this._live is null: no child,
\* timer or handler is touched, nothing is emitted; t: it ended in a TypeError
Unmounted(op, arg, m, u, r, t) ==
    /\ ~el
    /\ md' = m
    /\ undoStack' = u
    /\ redoStack' = r
    /\ thrown' = t
    /\ lastOp' = op
    /\ lastArg' = arg
    /\ emitted' = <<>>
    /\ caret' = -1
    /\ UNCHANGED <<el, doc, syncTimer, saveTimer, mode, composing, events,
                   destroyed, histCap, sizeCap>>

\* init() when the selector matches no element: this._el stays null
InitNotFound == Unmounted("init", <<>>, md, undoStack, redoStack, FALSE)

\* loadValue(value) with this._live null: the canonical string is set, _draw
\* is skipped, _syncHidden is called
LoadValueUnmounted(value, html) ==
    /\ isHtml(value) \/ html = <<>>
    /\ Unmounted("loadValue", value, loadText(value, html), undoStack, redoStack,
                 syncHiddenThrows(el))

\* clear() with this._live null: the canonical string and both stacks are
\* emptied, _draw is skipped, _syncHidden is called
ClearUnmounted == Unmounted("clear", <<>>, <<>>, <<>>, <<>>, syncHiddenThrows(el))

\* getMarkdown()
GetMarkdown == Unmounted("getMarkdown", md, md, undoStack, redoStack, FALSE)

\* getValue()
GetValue == Unmounted("getValue", getValue(md), md, undoStack, redoStack, FALSE)

\* the public API between the constructor and a successful init()
NextUnmounted ==
    \/ InitNotFound
    \/ \E v \in AllLoadTexts, h \in HtmlResults \cup {<<>>} : LoadValueUnmounted(v, h)
    \/ ClearUnmounted
    \/ GetMarkdown
    \/ GetValue

SpecUnmounted == InitUnmounted /\ [][NextUnmounted]_vars

\* C37: on an editor that is not mounted, loadValue, clear, getMarkdown and
\* getValue end without an error and leave the (absent) live area alone.
UnmountedApiSafe ==
    (~el /\ lastOp \in {"loadValue", "clear", "getMarkdown", "getValue"}) =>
        ~thrown /\ doc = <<>>

====
